---- MODULE Spec2Model ----
(***************************************************************************)
(* Model of the rainbow-bridge SDK connectors (bridge-sdk/connectors) and  *)
(* of the NEAR RPC gateway they drive.  One public operation runs at a     *)
(* time; every action is the code of an operation from one await to the    *)
(* next, i.e. the local checks that precede a remote call followed by the  *)
(* remote call itself.  The on-EVM NEAR light client advances on its own   *)
(* between those steps.                                                    *)
(***************************************************************************)
EXTENDS Integers, Sequences, FiniteSets, TLC

\* ------------------------------------------------------------------ bounds
MaxHeight == 4
WindowSize == 2
MaxAmount == 2
MaxLogs == 2
MaxReceipts == 2
MaxTopics == 1
MaxEthLogs == 2
MaxNonce == 1
MaxPollLatency == 2
TicksPerSec == 2
MaxPath == 1
MaxProofLogs == 1
MaxRecipientLen == 2

\* ------------------------------------------------------- program constants
DEFAULT_WAIT_FINAL_OUTCOME_TIMEOUT_SEC == 500
FinalizeDepositOmniTimeoutSec == 30
PollSleepSec == 2
STORAGE_KEY_SLOT == 302

VARIABLES
    cfg,        \* the builder's settings: field -> "ok" | "unset" | "bad"
    lcHeight,   \* sync height of the NEAR light client deployed on EVM
    op,         \* the public operation in progress and its arguments
    pc,         \* position of the operation: "idle", a step name, "done"
    loc,        \* local variables of the operation
    calls,      \* remote calls issued by this invocation, in order
    result,     \* what the operation returned: [kind, detail]
    elapsed     \* time since wait_for_tx_final_outcome took sent_at, in ticks

vars == <<cfg, lcHeight, op, pc, loc, calls, result, elapsed>>

\* ---------------------------------------------------------------- settings
Fields ==
    {"eth_endpoint", "eth_chain_id", "eth_private_key", "near_endpoint",
     "near_private_key", "near_signer", "eth_custodian_address",
     "eth_connector_account_id", "near_light_client_address",
     "bridge_token_factory_address", "token_locker_id",
     "fast_bridge_account_id", "fast_bridge_address"}

\* A chain id is a u64: it is set or unset, never malformed.
FieldStates(f) == IF f = "eth_chain_id" THEN {"ok", "unset"} ELSE {"ok", "unset", "bad"}

AllOk == [f \in Fields |-> "ok"]

\* Builders with every setting good, or with exactly one unset or malformed.
Settings ==
    {AllOk} \cup UNION {{[AllOk EXCEPT ![f] = s] : s \in FieldStates(f)} : f \in Fields}

NoResult == [kind |-> "none", detail |-> ""]
Ok == [kind |-> "Ok", detail |-> ""]
Err(k, d) == [kind |-> k, detail |-> d]
ConfigError == Err("ConfigError", "")

\* First failure of a sequence of checks, each Ok or an error.
RECURSIVE FirstErr(_)
FirstErr(checks) ==
    IF checks = <<>> THEN Ok
    ELSE IF Head(checks) # Ok THEN Head(checks)
    ELSE FirstErr(Tail(checks))

\* Option::ok_or(ConfigError): the setting must be set.
IsSet(f) == IF cfg[f] = "unset" THEN ConfigError ELSE Ok
\* ok_or(ConfigError) followed by a parse that maps its failure to ConfigError.
IsValid(f) == IF cfg[f] = "ok" THEN Ok ELSE ConfigError

eth_endpoint == IsSet("eth_endpoint")
near_endpoint == IsSet("near_endpoint")
near_light_client_address == IsValid("near_light_client_address")
eth_custodian_address == IsValid("eth_custodian_address")
bridge_token_factory_address == IsValid("bridge_token_factory_address")
fast_bridge_address == IsValid("fast_bridge_address")
eth_connector_account_id == IsSet("eth_connector_account_id")
token_locker_id == IsSet("token_locker_id")
fast_bridge_account_id == IsSet("fast_bridge_account_id")
near_account_id == IsValid("near_signer")

\* Provider::<Http>::try_from(endpoint): the URL must parse.
eth_provider == IF cfg["eth_endpoint"] = "ok" THEN Ok ELSE ConfigError

eth_signer ==
    FirstErr(<<IsSet("eth_private_key"), IsSet("eth_chain_id"), IsValid("eth_private_key")>>)

near_signer ==
    FirstErr(<<IsSet("near_private_key"), IsValid("near_signer"), IsValid("near_private_key")>>)

eth_custodian == FirstErr(<<eth_endpoint, eth_provider, eth_signer, eth_custodian_address>>)
bridge_token_factory ==
    FirstErr(<<eth_endpoint, eth_provider, eth_signer, bridge_token_factory_address>>)
bridge_token == FirstErr(<<eth_endpoint, eth_provider, eth_signer>>)
fast_bridge_contract ==
    FirstErr(<<eth_endpoint, eth_provider, eth_signer, fast_bridge_address>>)

\* An account id given by the caller that AccountId::from_str rejects.
InvalidAccountId == "Not.An.Account."

\* AccountId::from_str of a setting that holds an account id, or of a string
\* given by the caller.
AccountIdParses(f) == IF f \in Fields THEN cfg[f] = "ok" ELSE f # InvalidAccountId

\* ------------------------------------------------ NEAR light client on EVM
ZeroHash == [near_block |-> 0]
HashOf(h) == [near_block |-> h]

\* NearLightClient.blockHashes(h): the contract keeps the hashes of the last
\* WindowSize synced heights and answers bytes32(0) for any other height.
blockHashes(h) ==
    IF h >= 1 /\ h <= lcHeight /\ h > lcHeight - WindowSize THEN HashOf(h) ELSE ZeroHash

\* Receipts are named by the NEAR block that includes them.
ReceiptIds == 1..(MaxHeight + 1)
ReceiptBlockHeight(receipt_id) == receipt_id

\* The NEAR node builds a light-client proof only for a head block it knows
\* that is not older than the block of the receipt.
NearNodeHasProof(receipt_id, head) ==
    head # ZeroHash /\ ReceiptBlockHeight(receipt_id) <= head.near_block

None == [some |-> FALSE, v |-> 0]
Some(v) == [some |-> TRUE, v |-> v]

\* CryptoHash: 32 bytes.  u64 and u128 values are written as their 8 and 16
\* base-256 digits, most significant first.
Hash32(b) == [i \in 1..32 |-> b]
U64(n) == [i \in 1..8 |-> IF i = 8 THEN n ELSE 0]
U128(n) == [i \in 1..16 |-> IF i = 16 THEN n ELSE 0]

\* "a.b" as the bytes of an account id.
SampleAccount == <<97, 46, 98>>

\* RpcLightClientExecutionProofResponse as the NEAR node returns it for a
\* receipt and a light-client head: the views of near_primitives, with the
\* outcome's metadata and the inner-lite timestamp.
ProofResponse(receipt_id, receiver, head) ==
    [outcome_proof |->
        [proof |-> <<>>,
         block_hash |-> Hash32(ReceiptBlockHeight(receipt_id)),
         id |-> Hash32(receipt_id),
         outcome |-> [logs |-> <<>>, receipt_ids |-> <<>>,
                      gas_burnt |-> U64(3), tokens_burnt |-> U128(5),
                      executor_id |-> SampleAccount,
                      status |-> [tag |-> "Unknown", v |-> <<>>],
                      metadata |-> [version |-> 1, gas_profile |-> None]]],
     outcome_root_proof |-> <<>>,
     block_header_lite |->
        [prev_block_hash |-> Hash32(head.near_block - 1),
         inner_rest_hash |-> Hash32(7),
         inner_lite |-> [height |-> U64(head.near_block),
                         epoch_id |-> Hash32(1), next_epoch_id |-> Hash32(2),
                         prev_state_root |-> Hash32(3), outcome_root |-> Hash32(4),
                         timestamp |-> U64(9), timestamp_nanosec |-> U64(9),
                         next_bp_hash |-> Hash32(5), block_merkle_root |-> Hash32(6)]],
     block_proof |-> <<>>]

\* The From impls of light_client_proof.rs.
ExecutionOutcomeView_from(item) ==
    [logs |-> item.logs,
     receipt_ids |-> item.receipt_ids,
     gas_burnt |-> item.gas_burnt,
     tokens_burnt |-> item.tokens_burnt,
     executor_id |-> item.executor_id,
     status |-> item.status]

ExecutionOutcomeWithIdView_from(item) ==
    [proof |-> item.proof,
     block_hash |-> item.block_hash,
     id |-> item.id,
     outcome |-> ExecutionOutcomeView_from(item.outcome)]

\* Copies the wall-clock timestamp where timestamp_nanosec belongs.
BlockHeaderInnerLiteView_from_timestamp(item) ==
    [height |-> item.height,
     epoch_id |-> item.epoch_id,
     next_epoch_id |-> item.next_epoch_id,
     prev_state_root |-> item.prev_state_root,
     outcome_root |-> item.outcome_root,
     timestamp_nanosec |-> item.timestamp,
     next_bp_hash |-> item.next_bp_hash,
     block_merkle_root |-> item.block_merkle_root]

BlockHeaderInnerLiteView_from(item) ==
    [height |-> item.height,
     epoch_id |-> item.epoch_id,
     next_epoch_id |-> item.next_epoch_id,
     prev_state_root |-> item.prev_state_root,
     outcome_root |-> item.outcome_root,
     timestamp_nanosec |-> item.timestamp_nanosec,
     next_bp_hash |-> item.next_bp_hash,
     block_merkle_root |-> item.block_merkle_root]

LightClientBlockLiteView_from(item) ==
    [prev_block_hash |-> item.prev_block_hash,
     inner_rest_hash |-> item.inner_rest_hash,
     inner_lite |-> BlockHeaderInnerLiteView_from(item.inner_lite)]

LightClientExecutionProof_from(item) ==
    [outcome_proof |-> ExecutionOutcomeWithIdView_from(item.outcome_proof),
     outcome_root_proof |-> item.outcome_root_proof,
     block_header_lite |-> LightClientBlockLiteView_from(item.block_header_lite),
     block_proof |-> item.block_proof]

Borsh(x) == [borsh |-> x]
Base64(x) == [base64 |-> x]

\* ---------------------------------------------------------------- plumbing
Call(fn, args, res, val) == [fn |-> fn, args |-> args, res |-> res, val |-> val]

Finish(r) ==
    /\ result' = r
    /\ pc' = "done"
    /\ UNCHANGED <<loc, calls>>

\* Records the failure and the error but stays at the same step.
FailedCall_stay(fn, args, r) ==
    /\ calls' = Append(calls, Call(fn, args, "err", ""))
    /\ result' = r
    /\ UNCHANGED <<pc, loc>>

\* A remote call that failed: the error is returned to the caller.
FailedCall(fn, args, r) ==
    /\ calls' = Append(calls, Call(fn, args, "err", ""))
    /\ result' = r
    /\ pc' = "done"
    /\ UNCHANGED loc

NoLoc == [h |-> 0, hash |-> ZeroHash, proof |-> <<>>, allowance |-> 0,
          outcome |-> <<>>, lastPoll |-> "none", receipt |-> <<>>,
          pending |-> <<>>, access_key |-> <<>>, response |-> "none", at |-> 0,
          bytes |-> <<>>, decoded |-> <<>>, rebytes |-> <<>>, key |-> <<>>,
          callers |-> <<>>, returned |-> <<>>]

Invoke(o) ==
    /\ pc = "idle"
    /\ op' = o
    /\ loc' = NoLoc
    /\ calls' = <<>>
    /\ result' = NoResult
    /\ elapsed' = 0
    /\ UNCHANGED <<cfg, lcHeight>>

Env == <<cfg, lcHeight, op, elapsed>>

\* ------------------------------------------- finalizations of a NEAR proof
NearProofOps ==
    {"EthConnector.finalize_withdraw", "Nep141Connector.deploy_token",
     "Nep141Connector.finalize_deposit"}

\* The account whose receipt is proven, and the error of a bad account id.
ReceiverField(name) ==
    IF name = "EthConnector.finalize_withdraw" THEN "eth_connector_account_id"
    ELSE "token_locker_id"
ReceiverParseError(name) ==
    IF name = "EthConnector.finalize_withdraw" THEN ConfigError
    ELSE Err("UnknownError", "")
ProofContract(name) ==
    IF name = "EthConnector.finalize_withdraw" THEN eth_custodian ELSE bridge_token_factory
ProofMethod(name) ==
    CASE name = "EthConnector.finalize_withdraw" -> "withdraw"
      [] name = "Nep141Connector.deploy_token" -> "newBridgeToken"
      [] OTHER -> "deposit"

\* NearOnEthClient::get_sync_height: bridgeState().call(), first component.
get_sync_height ==
    /\ pc = "get_sync_height"
    /\ LET pre == FirstErr(<<eth_endpoint, near_endpoint, near_light_client_address,
                             eth_provider>>) IN
       IF pre # Ok THEN Finish(pre)
       ELSE \/ FailedCall("bridgeState", <<>>, Err("EthRpcError", "ProviderContractError"))
            \/ /\ calls' = Append(calls, Call("bridgeState", <<>>, "ok", lcHeight))
               /\ loc' = [loc EXCEPT !.h = lcHeight]
               /\ pc' = "get_block_hash"
               /\ UNCHANGED result
    /\ UNCHANGED Env

\* NearOnEthClient::get_block_hash(proof_block_height): blockHashes(h).call().
get_block_hash ==
    /\ pc = "get_block_hash"
    /\ IF eth_provider # Ok THEN Finish(eth_provider)
       ELSE \/ FailedCall("blockHashes", <<loc.h>>, Err("EthRpcError", "ProviderContractError"))
            \/ /\ calls' = Append(calls, Call("blockHashes", <<loc.h>>, "ok", blockHashes(loc.h)))
               /\ loc' = [loc EXCEPT !.hash = blockHashes(loc.h)]
               /\ pc' = "get_light_client_proof"
               /\ UNCHANGED result
    /\ UNCHANGED Env

\* near_rpc_client::get_light_client_proof(near_endpoint, receipt, block_hash).
get_light_client_proof ==
    /\ pc = "get_light_client_proof"
    /\ LET f == ReceiverField(op.name)
           args == <<op.receipt_id, f, loc.hash>>
       IN
       IF IsSet(f) # Ok THEN Finish(IsSet(f))
       ELSE IF ~AccountIdParses(f) THEN Finish(ReceiverParseError(op.name))
       ELSE \/ FailedCall("light_client_proof", args,
                          Err("NearRpcError", "RpcLightClientProofError"))
            \/ /\ cfg["near_endpoint"] = "ok"
               /\ NearNodeHasProof(op.receipt_id, loc.hash)
               /\ calls' = Append(calls, Call("light_client_proof", args, "ok",
                                              ProofResponse(op.receipt_id, f, loc.hash)))
               /\ loc' = [loc EXCEPT !.proof = ProofResponse(op.receipt_id, f, loc.hash)]
               /\ pc' = "submit_proof"
               /\ UNCHANGED result
    /\ UNCHANGED Env

\* Submits the light client's height of the moment instead of the one read.
SubmitProofArgs_latest == [proof |-> Borsh(loc.proof), proofBlockHeight |-> lcHeight,
                           proof_head |-> loc.hash,
                           lc_height |-> lcHeight, lc_hash |-> blockHashes(loc.h)]

\* proof_data.serialize(&mut buffer); contract.<method>(buffer, proof_block_height).send().
\* proof_head is the light-client head the proof was requested at; lc_height
\* and lc_hash record the light client as it is when the call is sent.
SubmitProofArgs == [proof |-> Borsh(loc.proof), proofBlockHeight |-> loc.h,
                    proof_head |-> loc.hash,
                    lc_height |-> lcHeight, lc_hash |-> blockHashes(loc.h)]

submit_proof ==
    /\ pc = "submit_proof"
    /\ LET contract == ProofContract(op.name)
           m == ProofMethod(op.name)
       IN
       IF contract # Ok THEN Finish(contract)
       ELSE \/ FailedCall(m, SubmitProofArgs, Err("EthRpcError", "SignerContractError"))
            \/ /\ calls' = Append(calls, Call(m, SubmitProofArgs, "ok", "tx_hash"))
               /\ result' = Ok
               /\ pc' = "done"
               /\ UNCHANGED loc
    /\ UNCHANGED Env

NearProofFinalization(name) ==
    \/ /\ \E r \in ReceiptIds : Invoke([name |-> name, receipt_id |-> r])
       /\ pc' = "get_sync_height"
    \/ /\ op.name = name
       /\ \/ get_sync_height
          \/ get_block_hash
          \/ get_light_client_proof
          \/ submit_proof

EthConnector_finalize_withdraw == NearProofFinalization("EthConnector.finalize_withdraw")
Nep141Connector_deploy_token == NearProofFinalization("Nep141Connector.deploy_token")
Nep141Connector_finalize_deposit == NearProofFinalization("Nep141Connector.finalize_deposit")

\* ------------------------------------------------ Nep141Connector::withdraw
Tokens == {"t.testnet"}
Amounts == 0..MaxAmount
Allowances == 0..(MaxAmount + 1)

\* Approves also when the allowance already equals the amount.
NeedsApprove_le(allowance, amount) == allowance <= amount

\* `if allowance < amount256`
NeedsApprove(allowance, amount) == allowance < amount

\* `approve(bridge_token_factory_address, amount256 - allowance)`
ApproveArgs(allowance, amount) == <<"bridge_token_factory", amount - allowance>>

\* factory.near_to_eth_token(near_token_id).call()
near_to_eth_token ==
    /\ pc = "near_to_eth_token"
    /\ IF bridge_token_factory # Ok THEN Finish(bridge_token_factory)
       ELSE \/ FailedCall("nearToEthToken", <<op.token>>, Err("EthRpcError", "SignerContractError"))
            \/ /\ calls' = Append(calls, Call("nearToEthToken", <<op.token>>, "ok", "erc20"))
               /\ pc' = "allowance"
               /\ UNCHANGED <<loc, result>>
    /\ UNCHANGED Env

\* bridge_token.allowance(signer.address(), bridge_token_factory_address).call()
allowance ==
    /\ pc = "allowance"
    /\ LET pre == FirstErr(<<bridge_token, eth_signer, bridge_token_factory_address>>)
           args == <<"signer", "bridge_token_factory">>
       IN
       IF pre # Ok THEN Finish(pre)
       ELSE \/ FailedCall("allowance", args, Err("EthRpcError", "SignerContractError"))
            \/ \E a \in Allowances :
                 /\ calls' = Append(calls, Call("allowance", args, "ok", a))
                 /\ loc' = [loc EXCEPT !.allowance = a]
                 /\ pc' = IF NeedsApprove(a, op.amount) THEN "approve_send" ELSE "withdraw_send"
                 /\ UNCHANGED result
    /\ UNCHANGED Env

\* bridge_token.approve(factory, amount256 - allowance).send().await?
approve_send ==
    /\ pc = "approve_send"
    /\ LET args == ApproveArgs(loc.allowance, op.amount) IN
       \/ FailedCall("approve", args, Err("EthRpcError", "SignerContractError"))
       \/ /\ calls' = Append(calls, Call("approve", args, "ok", "pending"))
          /\ pc' = "approve_confirm"
          /\ UNCHANGED <<loc, result>>
    /\ UNCHANGED Env

\* `.await.map_err(ContractError::from)?` on the PendingTransaction: it resolves
\* to a provider error, to Ok(Some(receipt)), or to Ok(None) when the
\* transaction is no longer known to the node; only the error is propagated.
approve_confirm ==
    /\ pc = "approve_confirm"
    /\ \/ FailedCall("approve.await", <<>>, Err("EthRpcError", "SignerContractError"))
       \/ \E r \in {"receipt", "no_receipt"} :
            /\ calls' = Append(calls, Call("approve.await", <<>>, "ok", r))
            /\ pc' = "withdraw_send"
            /\ UNCHANGED <<loc, result>>
    /\ UNCHANGED Env

\* factory.withdraw(near_token_id, amount, receiver).send()
withdraw_send ==
    /\ pc = "withdraw_send"
    /\ LET args == <<op.token, op.amount, op.receiver>> IN
       \/ FailedCall("factory.withdraw", args, Err("EthRpcError", "SignerContractError"))
       \/ /\ calls' = Append(calls, Call("factory.withdraw", args, "ok", "tx_hash"))
          /\ result' = Ok
          /\ pc' = "done"
          /\ UNCHANGED loc
    /\ UNCHANGED Env

Nep141Connector_withdraw ==
    \/ /\ \E t \in Tokens, a \in Amounts :
            Invoke([name |-> "Nep141Connector.withdraw", token |-> t, amount |-> a,
                    receiver |-> "bob.testnet"])
       /\ pc' = "near_to_eth_token"
    \/ /\ op.name = "Nep141Connector.withdraw"
       /\ \/ near_to_eth_token
          \/ allowance
          \/ approve_send
          \/ approve_confirm
          \/ withdraw_send

\* ------------------------------------------------- near_rpc_client::change
NearBlockHashes == {"near_head_a", "near_head_b"}
AccessKeyResponses ==
    [kind : {"AccessKey"}, nonce : 0..MaxNonce, block_hash : NearBlockHashes]
      \cup [kind : {"ViewAccount"}, nonce : {0}, block_hash : NearBlockHashes]

Json(x) == [json |-> x]
\* u64::to_string: the decimal text of the number.
to_string(n) == [decimal |-> n]
\* Serialize for ethers' U128: the "0x" hexadecimal text of the number.
to_hex(n) == [hex |-> n]

\* Uses the transferred amount as the fee amount.
TransferMessage_fee(o) ==
    [valid_till |-> o.valid_till,
     transfer |-> [token_near |-> o.token_id, token_eth |-> o.eth_token_address,
                   amount |-> o.amount],
     fee |-> [token |-> o.token_id, amount |-> o.amount],
     recipient |-> o.recipient,
     valid_till_block_height |-> None,
     aurora_sender |-> None]

\* The TransferMessage FastBridge::transfer builds from its arguments.
TransferMessage(o) ==
    [valid_till |-> o.valid_till,
     transfer |-> [token_near |-> o.token_id, token_eth |-> o.eth_token_address,
                   amount |-> o.amount],
     fee |-> [token |-> o.token_id, amount |-> o.fee_amount],
     recipient |-> o.recipient,
     valid_till_block_height |-> None,
     aurora_sender |-> None]

\* WithdrawArgs { recipient_address, amount } of EthConnector::withdraw.
WithdrawArgs(o) == [recipient_address |-> o.recipient_address, amount |-> o.amount]

\* The JSON object FastBridge::withdraw builds field by field.
FastBridgeWithdrawJson(o) ==
    [token_id |-> o.token_id, recipient_id |-> o.recipient_id,
     amount |-> IF o.amount.some THEN Some(to_string(o.amount.v)) ELSE None,
     msg |-> o.msg]

\* What each operation passes to change(): the checks made while its
\* arguments are evaluated, then receiver, method, args, gas and deposit.
\* Gas is in units of 10^12.
ChangePre(name) ==
    CASE name = "FastBridge.lp_unlock" -> FirstErr(<<near_signer, fast_bridge_account_id>>)
      [] name = "FastBridge.unlock" -> FirstErr(<<near_signer, fast_bridge_account_id>>)
      [] name = "FastBridge.transfer" ->
            FirstErr(<<near_endpoint, fast_bridge_account_id, near_signer>>)
      [] name = "FastBridge.withdraw" ->
            FirstErr(<<near_endpoint, near_signer, fast_bridge_account_id>>)
      [] name = "Nep141Connector.deposit" ->
            FirstErr(<<near_endpoint, token_locker_id, near_signer>>)
      [] name = "EthConnector.withdraw" ->
            FirstErr(<<near_endpoint, eth_connector_account_id, near_signer>>)
      [] name = "EthConnector.finalize_deposit" ->
            FirstErr(<<near_signer, eth_connector_account_id>>)
      [] name = "Nep141Connector.finalize_withdraw" ->
            FirstErr(<<near_signer, token_locker_id>>)
      [] name = "Nep141Connector.log_token_metadata" ->
            FirstErr(<<near_endpoint, near_signer, token_locker_id>>)
      [] name = "Nep141Connector.storage_deposit_for_token" ->
            FirstErr(<<near_endpoint, token_locker_id, near_signer>>)
      [] name = "Nep141Connector.sign_transfer" ->
            FirstErr(<<near_endpoint, near_signer, token_locker_id>>)
      [] name = "near_rpc_client.change_and_wait_for_outcome" -> Ok

ChangeTx(name) ==
    CASE name = "FastBridge.lp_unlock" ->
            [receiver |-> "fast_bridge_account_id", method |-> "lp_unlock",
             args |-> Json([proof |-> Json(loc.proof)]),
             gas |-> 120, deposit |-> 0]
      [] name = "FastBridge.unlock" ->
            [receiver |-> "fast_bridge_account_id", method |-> "unlock",
             args |-> Json([nonce |-> to_string(op.nonce), proof |-> Base64(Borsh(loc.proof))]),
             gas |-> 300, deposit |-> 0]
      [] name = "FastBridge.transfer" ->
            [receiver |-> op.token_id, method |-> "ft_transfer_call",
             args |-> Json([receiver_id |-> "fast_bridge_account_id",
                            amount |-> to_string(op.amount),
                            msg |-> Base64(Borsh(TransferMessage(op)))]),
             gas |-> 200, deposit |-> 1]
      [] name = "FastBridge.withdraw" ->
            [receiver |-> "fast_bridge_account_id", method |-> "withdraw",
             args |-> Json(FastBridgeWithdrawJson(op)),
             gas |-> 20, deposit |-> 0]
      [] name = "Nep141Connector.deposit" ->
            [receiver |-> op.near_token_id, method |-> "ft_transfer_call",
             args |-> Json([receiver_id |-> "token_locker_id",
                            amount |-> to_string(op.amount),
                            msg |-> op.receiver]),
             gas |-> 300, deposit |-> 1]
      [] name = "EthConnector.withdraw" ->
            [receiver |-> "eth_connector_account_id", method |-> "withdraw",
             args |-> Borsh(WithdrawArgs(op)),
             gas |-> 300, deposit |-> 1]
      [] name = "EthConnector.finalize_deposit" ->
            [receiver |-> "eth_connector_account_id", method |-> "deposit",
             args |-> Borsh(loc.proof),
             gas |-> 300, deposit |-> 0]
      [] name = "Nep141Connector.finalize_withdraw" ->
            [receiver |-> "token_locker_id", method |-> "withdraw",
             args |-> Borsh(loc.proof),
             gas |-> 300, deposit |-> "60000000000000000000000"]
      [] name = "Nep141Connector.log_token_metadata" ->
            [receiver |-> "token_locker_id", method |-> "log_metadata",
             args |-> Json([token_id |-> op.near_token_id]),
             gas |-> 300, deposit |-> "200000000000000000000000"]
      [] name = "Nep141Connector.storage_deposit_for_token" ->
            [receiver |-> op.near_token_id, method |-> "storage_deposit",
             args |-> Json([account_id |-> "token_locker_id"]),
             gas |-> 300, deposit |-> op.amount]
      [] name = "Nep141Connector.sign_transfer" ->
            [receiver |-> "token_locker_id", method |-> "sign_transfer",
             args |-> Json([nonce |-> to_hex(op.origin_nonce),
                            fee_recepient |-> op.fee_recepient,
                            fee |-> Some(op.fee)]),
             gas |-> 300, deposit |-> "500000000000000000000000"]
      [] name = "near_rpc_client.change_and_wait_for_outcome" ->
            [receiver |-> op.receiver_id, method |-> op.method_name,
             args |-> Json(op.args), gas |-> op.gas, deposit |-> op.deposit]

\* Signs with the nonce the access key already has.
Transaction_same_nonce(tx, access_key) ==
    [signer_id |-> "near_signer", nonce |-> access_key.nonce,
     receiver_id |-> tx.receiver, block_hash |-> access_key.block_hash,
     actions |-> <<[method_name |-> tx.method, args |-> tx.args,
                    gas |-> tx.gas, deposit |-> tx.deposit]>>]

\* Transaction { nonce: current_nonce + 1, block_hash: response.block_hash, .. }
Transaction(tx, access_key) ==
    [signer_id |-> "near_signer", nonce |-> access_key.nonce + 1,
     receiver_id |-> tx.receiver, block_hash |-> access_key.block_hash,
     actions |-> <<[method_name |-> tx.method, args |-> tx.args,
                    gas |-> tx.gas, deposit |-> tx.deposit]>>]

\* change(): the ViewAccessKey query, then the code up to the broadcast.
change_query ==
    /\ pc = "change_query"
    /\ LET pre == ChangePre(op.name)
           tx == ChangeTx(op.name)
       IN
       IF pre # Ok THEN Finish(pre)
       ELSE \/ FailedCall("query", <<"ViewAccessKey">>, Err("NearRpcError", "RpcQueryError"))
            \/ /\ cfg["near_endpoint"] = "ok"
               /\ \E r \in AccessKeyResponses :
                    /\ calls' = Append(calls, Call("query", <<"ViewAccessKey">>, "ok", r))
                    /\ IF r.kind # "AccessKey"
                         THEN /\ result' = Err("NearRpcError", "NonceError")
                              /\ pc' = "done"
                              /\ UNCHANGED loc
                       ELSE IF ~AccountIdParses(tx.receiver)
                         THEN /\ result' = Err("panic", "receiver_id.parse().unwrap()")
                              /\ pc' = "done"
                              /\ UNCHANGED loc
                       ELSE /\ loc' = [loc EXCEPT !.access_key = r]
                            /\ pc' = "change_broadcast"
                            /\ UNCHANGED result
    /\ UNCHANGED Env

\* change(): broadcast_tx_async of the signed transaction.
change_broadcast ==
    /\ pc = "change_broadcast"
    /\ LET t == Transaction(ChangeTx(op.name), loc.access_key) IN
       \/ FailedCall("broadcast_tx_async", t, Err("NearRpcError", "RpcBroadcastTxAsyncError"))
       \/ /\ calls' = Append(calls, Call("broadcast_tx_async", t, "ok", "tx_hash"))
          /\ IF op.name = "near_rpc_client.change_and_wait_for_outcome"
             THEN pc' = "tx_status" /\ UNCHANGED result
             ELSE pc' = "done" /\ result' = Ok
          /\ UNCHANGED loc
    /\ UNCHANGED Env

\* ------------------------------- two change() calls in flight, one signer
\* The arguments of a change() call: receiver, method, args, gas, deposit.
ChangeRequests ==
    [receiver : {"token.testnet", InvalidAccountId},
     method : {"ft_transfer_call", "withdraw"},
     args : {Json("args")}, gas : {300}, deposit : {1}]

\* The nonce of the signer's access key on the NEAR node: the nonce of the
\* last transaction of the key that was included, at first op.nonce.
AccessKeyNonce ==
    LET accepted == {k \in 1..Len(calls) :
                        calls[k].fn = "include" /\ calls[k].res = "accepted"}
    IN IF accepted = {} THEN op.nonce
       ELSE calls[CHOOSE k \in accepted : \A j \in accepted : j <= k].val

\* A caller of change(): its position, what it read, the places of its query
\* and of its broadcast in `calls` (0: none) and what it returned.
NewCaller == [pc |-> "change_query", access_key |-> <<>>, query |-> 0, sent |-> 0,
              result |-> NoResult]

\* Two tasks of one driver call change() with the same signer.
ConcurrentChange ==
    /\ pc = "idle"
    /\ \E a, b \in ChangeRequests, n \in 0..MaxNonce :
          op' = [name |-> "change", requests |-> <<a, b>>, nonce |-> n]
    /\ pc' = "change"
    /\ loc' = [NoLoc EXCEPT !.callers = <<NewCaller, NewCaller>>]
    /\ calls' = <<>>
    /\ result' = NoResult
    /\ UNCHANGED <<cfg, lcHeight, elapsed>>

\* change() of caller i: the ViewAccessKey query, then the code up to the
\* broadcast.  The node answers with the key's nonce and its head.
change_query_of(i) ==
    /\ pc = "change" /\ loc.callers[i].pc = "change_query"
    /\ LET me == loc.callers[i]
           at == Len(calls) + 1
       IN
       \/ /\ calls' = Append(calls, Call("query", <<"ViewAccessKey">>, "err", ""))
          /\ loc' = [loc EXCEPT !.callers[i] =
                        [me EXCEPT !.pc = "done", !.query = at,
                                   !.result = Err("NearRpcError", "RpcQueryError")]]
       \/ \E r \in AccessKeyResponses :
            /\ r.kind = "AccessKey" => r.nonce = AccessKeyNonce
            /\ calls' = Append(calls, Call("query", <<"ViewAccessKey">>, "ok", r))
            /\ loc' = [loc EXCEPT !.callers[i] =
                          IF r.kind # "AccessKey"
                            THEN [me EXCEPT !.pc = "done", !.query = at,
                                            !.result = Err("NearRpcError", "NonceError")]
                          ELSE IF ~AccountIdParses(op.requests[i].receiver)
                            THEN [me EXCEPT !.pc = "done", !.query = at,
                                            !.result = Err("panic", "receiver_id.parse().unwrap()")]
                          ELSE [me EXCEPT !.pc = "change_broadcast", !.query = at,
                                          !.access_key = r]]
    /\ UNCHANGED <<cfg, lcHeight, op, pc, result, elapsed>>

\* change() of caller i: broadcast_tx_async of the signed transaction.
change_broadcast_of(i) ==
    /\ pc = "change" /\ loc.callers[i].pc = "change_broadcast"
    /\ LET me == loc.callers[i]
           t == Transaction(op.requests[i], me.access_key)
       IN
       \/ /\ calls' = Append(calls, Call("broadcast_tx_async", t, "err", ""))
          /\ loc' = [loc EXCEPT !.callers[i] =
                        [me EXCEPT !.pc = "done",
                                   !.result = Err("NearRpcError", "RpcBroadcastTxAsyncError")]]
       \/ /\ calls' = Append(calls, Call("broadcast_tx_async", t, "ok", "tx_hash"))
          /\ loc' = [loc EXCEPT !.callers[i] =
                        [me EXCEPT !.pc = "done", !.sent = Len(calls) + 1, !.result = Ok]]
    /\ UNCHANGED <<cfg, lcHeight, op, pc, result, elapsed>>

\* The NEAR node processes a broadcast transaction: it is accepted when its
\* nonce is larger than the nonce of the access key, which then takes it.
IncludeTransaction ==
    /\ pc = "change"
    /\ \E k \in 1..Len(calls) :
          /\ calls[k].fn = "broadcast_tx_async" /\ calls[k].res = "ok"
          /\ \A j \in 1..Len(calls) : calls[j].fn = "include" => calls[j].args # k
          /\ calls' = Append(calls,
                 Call("include", k,
                      IF calls[k].args.nonce > AccessKeyNonce THEN "accepted" ELSE "rejected",
                      calls[k].args.nonce))
    /\ UNCHANGED <<cfg, lcHeight, op, pc, loc, result, elapsed>>


\* ------------------------------------ Nep141Connector::finalize_deposit_omni
\* Time is counted in ticks of 1/TicksPerSec second.
\* Duration::as_secs: the whole seconds of a duration.
as_secs(ticks) == ticks \div TicksPerSec

\* How long a status request takes: no time, one tick, MaxPollLatency seconds.
PollLatencies == {0, 1, MaxPollLatency * TicksPerSec}

\* What a status request returns: an error that is not a handler error, a
\* handler error, a response without final_execution_outcome, or an outcome.
PollResponseKinds == {"transport_error", "handler_error", "no_outcome", "outcome"}

\* A log line of a receipt outcome: whether its text contains
\* "SignTransferEvent" and what serde_json::from_str::<Nep141LockerEvent>
\* makes of it.  The two are independent: a text with the marker may fail
\* to parse ("SignTransferEvent: failed") or be the JSON of another event
\* that mentions it.
LogSet ==
    {[marker |-> TRUE, event |-> "SignTransferEvent", recipient |-> "eth"],
     [marker |-> TRUE, event |-> "SignTransferEvent", recipient |-> "near"],
     [marker |-> TRUE, event |-> "other", recipient |-> ""],
     [marker |-> TRUE, event |-> "not_json", recipient |-> ""],
     [marker |-> FALSE, event |-> "not_json", recipient |-> ""]}

SeqsUpTo(S, n) == UNION {[1..k -> S] : k \in 0..n}

\* FinalExecutionOutcomeView.receipts_outcome, each with its outcome.logs.
Outcomes == SeqsUpTo(SeqsUpTo(LogSet, MaxLogs), MaxReceipts)

\* `receipt.outcome.logs.len() > 1 && receipt.outcome.logs[0].contains(..)`
IsTransferReceipt(logs) == Len(logs) > 1 /\ logs[1].marker

\* Iterator::find over receipts_outcome: index of the first match, 0 if none.
RECURSIVE FindFrom(_, _)
FindFrom(outcome, i) ==
    IF i > Len(outcome) THEN 0
    ELSE IF IsTransferReceipt(outcome[i]) THEN i
    ELSE FindFrom(outcome, i + 1)
find_transfer_receipt(outcome) == FindFrom(outcome, 1)

\* The timeout handed to wait_for_tx_final_outcome: 30 by
\* finalize_deposit_omni, the default by change_and_wait_for_outcome.
WaitTimeoutSec(name) ==
    IF name = "Nep141Connector.finalize_deposit_omni" THEN FinalizeDepositOmniTimeoutSec
    ELSE DEFAULT_WAIT_FINAL_OUTCOME_TIMEOUT_SEC

\* Reads the signer account only when no sender_id was supplied.
SenderIdCheck_lazy == IF op.sender_id = "none" THEN near_account_id ELSE Ok

\* `sender_id.unwrap_or(self.near_account_id()?)`: the argument of unwrap_or
\* is evaluated, and its error returned, whether sender_id is Some or None.
SenderIdCheck == near_account_id

\* What the caller evaluates before it enters wait_for_tx_final_outcome:
\* finalize_deposit_omni its endpoint and sender, change_and_wait_for_outcome
\* nothing more (change() has returned).
WaitPre(name) ==
    IF name = "Nep141Connector.finalize_deposit_omni"
    THEN FirstErr(<<near_endpoint, SenderIdCheck>>)
    ELSE Ok

\* The account polled: `sender_id.unwrap_or(self.near_account_id()?)`.
PollSender == IF op.sender_id = "none" THEN "near_signer" ELSE op.sender_id

\* The transaction and account of the status request: the arguments of
\* finalize_deposit_omni, or the hash change() returned and the signer.
WaitArgs(name) ==
    IF name = "Nep141Connector.finalize_deposit_omni" THEN <<op.tx_hash, PollSender>>
    ELSE <<calls[Len(calls)].val, "near_signer">>

\* Polls again at once.
sleep_none(now) == now

\* `time::sleep(time::Duration::from_secs(2)).await`: the time it ends.
sleep(now) == now + PollSleepSec * TicksPerSec

\* Gives up already when the deadline is reached.
PastDeadline_reached(delta, timeout_sec) == delta >= timeout_sec

\* Processes every response as if it had arrived within the deadline.
PastDeadline_never(delta, timeout_sec) == FALSE

\* `if delta > timeout_sec`
PastDeadline(delta, timeout_sec) == delta > timeout_sec

\* The status request of one iteration of the loop of
\* wait_for_tx_final_outcome, up to the arrival of its response.  The first
\* iteration is preceded by the caller's checks.  loc.response and loc.at
\* keep what the request returned and when.
tx_status_request ==
    /\ pc = "tx_status"
    /\ LET pre == WaitPre(op.name) IN
       IF pre # Ok
       THEN Finish(pre) /\ UNCHANGED elapsed
       ELSE \E d \in PollLatencies, r \in PollResponseKinds :
            \* Holds of every poll the loop issues; keeps the state space finite.
            /\ as_secs(elapsed) <= WaitTimeoutSec(op.name) + PollSleepSec
            /\ r # "transport_error" => cfg["near_endpoint"] = "ok"
            /\ elapsed' = elapsed + d
            /\ loc' = [loc EXCEPT !.response = r, !.at = elapsed + d]
            /\ pc' = "tx_status_response"
            /\ UNCHANGED <<result, calls>>
    /\ UNCHANGED <<cfg, lcHeight, op>>

\* The rest of the iteration: the deadline check, the match on the response
\* and, on `continue`, the 2-second sleep.  Time is no longer counted once
\* the loop is left with an outcome.
tx_status_response ==
    /\ pc = "tx_status_response"
    /\ LET r == loc.response
           delta == as_secs(elapsed)
       IN
       IF PastDeadline(delta, WaitTimeoutSec(op.name))
       THEN /\ result' = Err("NearRpcError", "FinalizationError")
            /\ pc' = "done"
            /\ loc' = [loc EXCEPT !.lastPoll = "deadline"]
            /\ UNCHANGED <<calls, elapsed>>
       ELSE IF r = "transport_error"
       THEN /\ result' = Err("NearRpcError", "RpcTransactionError")
            /\ pc' = "done"
            /\ loc' = [loc EXCEPT !.lastPoll = r]
            /\ UNCHANGED <<calls, elapsed>>
       ELSE IF r \in {"handler_error", "no_outcome"}
       THEN /\ loc' = [loc EXCEPT !.lastPoll = r]
            /\ elapsed' = sleep(elapsed)
            /\ pc' = "tx_status"
            /\ UNCHANGED <<result, calls>>
       ELSE /\ loc' = [loc EXCEPT !.lastPoll = "outcome", !.at = 0]
            /\ pc' = "tx_outcome"
            /\ elapsed' = 0
            /\ UNCHANGED <<result, calls>>
    /\ UNCHANGED <<cfg, lcHeight, op>>

\* `Ok(RpcTransactionResponse { final_execution_outcome: Some(outcome), .. })
\* => return Ok(outcome.into_outcome())`: the receipts and logs the response
\* holds, handed to the caller.  change_and_wait_for_outcome returns them.
tx_status_outcome ==
    /\ pc = "tx_outcome"
    /\ \E o \in Outcomes :
          /\ loc' = [loc EXCEPT !.outcome = o]
          /\ calls' = Append(calls, Call("tx", WaitArgs(op.name), "ok", o))
    /\ IF op.name = "Nep141Connector.finalize_deposit_omni"
       THEN pc' = "deposit_omni" /\ UNCHANGED result
       ELSE pc' = "done" /\ result' = Ok
    /\ UNCHANGED Env

wait_for_tx_final_outcome ==
    \/ tx_status_request
    \/ tx_status_response
    \/ tx_status_outcome

\* ----------------------------------------------- omni_types: OmniAddress
\* Text is a sequence of characters.
HexDigits == <<"0", "1", "2", "3", "4", "5", "6", "7", "8", "9",
               "a", "b", "c", "d", "e", "f">>

\* hex::encode: two lowercase digits per byte.
hex_encode(bytes) ==
    [i \in 1..(2 * Len(bytes)) |->
        LET b == bytes[(i + 1) \div 2] IN
        HexDigits[(IF i % 2 = 1 THEN b \div 16 ELSE b % 16) + 1]]

\* The value of a hex digit of either case, -1 for any other character.
HexVal(c) ==
    LET upper == <<"A", "B", "C", "D", "E", "F">> IN
    IF \E k \in 1..16 : HexDigits[k] = c THEN (CHOOSE k \in 1..16 : HexDigits[k] = c) - 1
    ELSE IF \E k \in 1..6 : upper[k] = c THEN (CHOOSE k \in 1..6 : upper[k] = c) + 9
    ELSE -1

\* Vec::from_hex: OddLength, InvalidHexCharacter, or the bytes.
from_hex(s) ==
    IF Len(s) % 2 = 1 THEN [ok |-> FALSE, v |-> "OddLength"]
    ELSE IF \E i \in 1..Len(s) : HexVal(s[i]) = -1
      THEN [ok |-> FALSE, v |-> "InvalidHexCharacter"]
    ELSE [ok |-> TRUE,
          v |-> [i \in 1..(Len(s) \div 2) |-> 16 * HexVal(s[2 * i - 1]) + HexVal(s[2 * i])]]

\* str::strip_prefix("0x"), the string itself when it has no such prefix.
strip_prefix_0x(s) ==
    IF Len(s) >= 2 /\ s[1] = "0" /\ s[2] = "x" THEN SubSeq(s, 3, Len(s)) ELSE s

\* Takes the hex digits as they are, prefix included.
H160_from_str_no_strip(s) ==
    LET decoded_hex == from_hex(s) IN
    IF ~decoded_hex.ok THEN decoded_hex
    ELSE IF Len(decoded_hex.v) # 20 THEN [ok |-> FALSE, v |-> "Invalid length"]
    ELSE decoded_hex

\* H160::from_str
H160_from_str(s) ==
    LET decoded_hex == from_hex(strip_prefix_0x(s)) IN
    IF ~decoded_hex.ok THEN decoded_hex
    ELSE IF Len(decoded_hex.v) # 20 THEN [ok |-> FALSE, v |-> "Invalid length"]
    ELSE decoded_hex

\* Display for H160: "0x{}" of hex::encode.
H160_to_string(bytes) == <<"0", "x">> \o hex_encode(bytes)

\* str::split_once(':'): the text before and after the first ':'.
split_once(input) ==
    IF \A i \in 1..Len(input) : input[i] # ":" THEN [some |-> FALSE, v |-> <<>>]
    ELSE LET i == CHOOSE k \in 1..Len(input) :
                      input[k] = ":" /\ \A j \in 1..(k - 1) : input[j] # ":"
         IN [some |-> TRUE, v |-> <<SubSeq(input, 1, i - 1), SubSeq(input, i + 1, Len(input))>>]

\* OmniAddress::from_str
OmniAddress_from_str(input) ==
    LET parts == split_once(input) IN
    IF ~parts.some THEN [ok |-> FALSE, v |-> <<>>]
    ELSE LET chain == parts.v[1]
             recipient == parts.v[2]
         IN CASE chain = <<"e", "t", "h">> ->
                   LET addr == H160_from_str(recipient) IN
                   IF addr.ok THEN [ok |-> TRUE, v |-> [chain |-> "Eth", recipient |-> addr.v]]
                   ELSE [ok |-> FALSE, v |-> <<>>]
              [] chain = <<"n", "e", "a", "r">> ->
                   [ok |-> TRUE, v |-> [chain |-> "Near", recipient |-> recipient]]
              [] chain = <<"s", "o", "l">> ->
                   [ok |-> TRUE, v |-> [chain |-> "Sol", recipient |-> recipient]]
              [] OTHER -> [ok |-> FALSE, v |-> <<>>]

\* Display for OmniAddress: "{}:{}" of the chain and the recipient.
OmniAddress_to_string(a) ==
    CASE a.chain = "Eth" -> <<"e", "t", "h">> \o <<":">> \o H160_to_string(a.recipient)
      [] a.chain = "Near" -> <<"n", "e", "a", "r">> \o <<":">> \o a.recipient
      [] a.chain = "Sol" -> <<"s", "o", "l">> \o <<":">> \o a.recipient

\* Nep141LockerEvent values: a SignTransferEvent with its payload and
\* signature, or an event of another kind.
EthRecipient == [chain |-> "Eth", recipient |-> [i \in 1..20 |-> 171]]
Payloads ==
    [nonce : {1, 7}, token : {"t.testnet"}, amount : 1..MaxAmount,
     recipient : {EthRecipient, [chain |-> "Near", recipient |-> <<"a">>],
                  [chain |-> "Sol", recipient |-> <<"a">>]},
     fee_recipient : {None, Some(EthRecipient),
                      Some([chain |-> "Near", recipient |-> <<"a", "x">>])}]
LockerEvents ==
    [event : {"SignTransferEvent", "other"}, message_payload : Payloads,
     signature : {"signature"}]

\* serde_json::from_str::<Nep141LockerEvent>(log) of a log line that parses.
ParsedLog(log) ==
    [event |-> log.event,
     message_payload |->
        [nonce |-> 1, token |-> "t.testnet", amount |-> 1,
         recipient |-> IF log.recipient = "eth" THEN EthRecipient
                       ELSE [chain |-> "Near", recipient |-> <<"a">>],
         fee_recipient |-> None],
     signature |-> "signature"]

\* Puts the payload's amount where the nonce belongs.
BridgeDeposit_amount_as_nonce(message_payload) ==
    [nonce |-> message_payload.amount,
     token |-> message_payload.token,
     amount |-> message_payload.amount,
     recipient |-> message_payload.recipient.recipient,
     fee_recipient |-> IF message_payload.fee_recipient.some
                         THEN OmniAddress_to_string(message_payload.fee_recipient.v)
                       ELSE <<>>]

\* BridgeDeposit { nonce, token, amount, recipient: H160(addr.0),
\* fee_recipient: map_or_else(String::new, |addr| addr.to_string()) }
BridgeDeposit(message_payload) ==
    [nonce |-> message_payload.nonce,
     token |-> message_payload.token,
     amount |-> message_payload.amount,
     recipient |-> message_payload.recipient.recipient,
     fee_recipient |-> IF message_payload.fee_recipient.some
                         THEN OmniAddress_to_string(message_payload.fee_recipient.v)
                       ELSE <<>>]

\* finalize_deposit_omni_with_log(transfer_log): the factory, the event
\* kind, the recipient, then factory.deposit_omni(signature, deposit).send().
finalize_deposit_omni_with_log(transfer_log) ==
    IF bridge_token_factory # Ok THEN Finish(bridge_token_factory)
    ELSE IF transfer_log.event # "SignTransferEvent" THEN Finish(Err("UnknownError", "event"))
    ELSE IF transfer_log.message_payload.recipient.chain # "Eth"
      THEN Finish(Err("UnknownError", "recipient"))
    ELSE LET args == <<transfer_log.signature, BridgeDeposit(transfer_log.message_payload)>> IN
         \/ FailedCall("deposit_omni", args, Err("EthRpcError", "SignerContractError"))
         \/ /\ calls' = Append(calls, Call("deposit_omni", args, "ok", "tx_hash"))
            /\ result' = Ok
            /\ pc' = "done"
            /\ UNCHANGED loc

\* The rest of finalize_deposit_omni: pick the log, parse it and hand it to
\* finalize_deposit_omni_with_log.
deposit_omni ==
    /\ pc = "deposit_omni"
    /\ LET k == find_transfer_receipt(loc.outcome) IN
       IF k = 0 THEN Finish(Err("UnknownError", "no SignTransferEvent log"))
       ELSE LET log == loc.outcome[k][1] IN
            IF log.event = "not_json" THEN Finish(Err("UnknownError", "serde_json"))
            ELSE finalize_deposit_omni_with_log(ParsedLog(log))
    /\ UNCHANGED Env

\* finalize_deposit_omni_with_log called by the user with an event.
deposit_omni_with_log ==
    /\ pc = "deposit_omni_with_log"
    /\ finalize_deposit_omni_with_log(op.transfer_log)
    /\ UNCHANGED Env

Nep141Connector_finalize_deposit_omni_with_log ==
    \/ /\ \E e \in LockerEvents :
            Invoke([name |-> "Nep141Connector.finalize_deposit_omni_with_log",
                    transfer_log |-> e])
       /\ pc' = "deposit_omni_with_log"
    \/ /\ op.name = "Nep141Connector.finalize_deposit_omni_with_log"
       /\ deposit_omni_with_log

Nep141Connector_finalize_deposit_omni ==
    \/ /\ \E s \in {"none", "alice.testnet"} :
            Invoke([name |-> "Nep141Connector.finalize_deposit_omni",
                    tx_hash |-> "near_tx", sender_id |-> s])
       /\ pc' = "tx_status"
    \/ /\ op.name = "Nep141Connector.finalize_deposit_omni"
       /\ \/ wait_for_tx_final_outcome
          \/ deposit_omni

\* --------------------------------------------------- FastBridge::lp_unlock
\* keccak("TransferTokens(uint256,address,address,address,uint256,string,bytes32)")
log_to_find == "0xed54b7aec45dbd5851e5b6484f6fbc0e5990e127a8f1eea7a1e113eba6bfacf9"
OtherTopic == "0xddf252ad1be2c89b69c2b068fc378daa952ba7f163c4a11628f55a4df523b3ef"

TopicSeqs == SeqsUpTo({log_to_find, OtherTopic}, MaxTopics)
\* Index in the block of the first log of the receipt.
LogOffsets == {0, 7}

\* TransactionReceipt.logs as eth_getTransactionReceipt returns them.
EthReceipts ==
    {[i \in 1..Len(ts) |-> [topics |-> ts[i], log_index |-> off + i - 1]] :
        ts \in SeqsUpTo(TopicSeqs, MaxEthLogs), off \in LogOffsets}

\* `.find(|log| log.topics[0] == log_to_find)`: position of the first match,
\* 0 when there is none, -1 when indexing topics[0] of an earlier log panics.
RECURSIVE FindLogFrom(_, _)
FindLogFrom(logs, i) ==
    IF i > Len(logs) THEN 0
    ELSE IF Len(logs[i].topics) = 0 THEN -1
    ELSE IF logs[i].topics[1] = log_to_find THEN i
    ELSE FindLogFrom(logs, i + 1)
find_log(logs) == FindLogFrom(logs, 1)

\* ------------------------------------------ the receipt proof builder
\* eth_proof::get_event_proof (get_proof_for_event in Nep141Connector) has the
\* result type Result<Proof, EthProofError>; how the builder comes to its
\* result is not part of these sources, so the call is modelled by what its
\* callers can see.  From<EthProofError> for BridgeSdkError turns TrieError
\* and Other into EthProofError(text) and EthClientError into EthRpcError.
\* `(..).await?`: an error ends the operation, a proof goes to the submission.
EventProofCall(fn, args) ==
    \/ \E e \in {Err("EthProofError", ""), Err("EthRpcError", "EthClientError")} :
         /\ calls' = Append(calls, Call(fn, args, "err", ""))
         /\ result' = e
         /\ pc' = "done"
         /\ UNCHANGED loc
    \/ LET proof == [tx_hash |-> args[1], log_index |-> args[2]] IN
         /\ cfg["eth_endpoint"] = "ok"
         /\ calls' = Append(calls, Call(fn, args, "ok", proof))
         /\ loc' = [loc EXCEPT !.proof = proof]
         /\ pc' = "change_query"
         /\ UNCHANGED result

\* eth_rpc_client.get_transaction_receipt_by_hash(&tx_hash)
get_transaction_receipt ==
    /\ pc = "get_transaction_receipt"
    /\ LET pre == FirstErr(<<eth_endpoint, near_endpoint>>) IN
       IF pre # Ok THEN Finish(pre)
       ELSE \/ FailedCall("eth_getTransactionReceipt", <<op.tx_hash>>,
                          Err("EthRpcError", "EthClientError"))
            \/ /\ cfg["eth_endpoint"] = "ok"
               /\ \E r \in EthReceipts :
                    /\ calls' = Append(calls, Call("eth_getTransactionReceipt", <<op.tx_hash>>, "ok", r))
                    /\ loc' = [loc EXCEPT !.receipt = r]
               /\ pc' = "get_event_proof"
               /\ UNCHANGED result
    /\ UNCHANGED Env

\* The log scan, then eth_proof::get_event_proof(tx_hash, log.log_index, eth_endpoint).
get_event_proof ==
    /\ pc = "get_event_proof"
    /\ LET k == find_log(loc.receipt) IN
       IF k = -1 THEN Finish(Err("panic", "log.topics[0]: index out of bounds"))
       ELSE IF k = 0 THEN Finish(Err("EthProofError", "Log to generate proof from not found"))
       ELSE EventProofCall("get_event_proof", <<op.tx_hash, loc.receipt[k].log_index>>)
    /\ UNCHANGED Env

FastBridge_lp_unlock ==
    \/ /\ Invoke([name |-> "FastBridge.lp_unlock", tx_hash |-> "eth_tx"])
       /\ pc' = "get_transaction_receipt"
    \/ /\ op.name = "FastBridge.lp_unlock"
       /\ \/ get_transaction_receipt
          \/ get_event_proof
          \/ change_query
          \/ change_broadcast

\* ------------------------------------------------------ FastBridge::unlock
keccak256(bytes) == [keccak256 |-> bytes]

\* U256::to_big_endian: 32 bytes, most significant first.
RECURSIVE BigEndian(_, _)
BigEndian(n, len) ==
    IF len = 0 THEN <<>> ELSE Append(BigEndian(n \div 256, len - 1), n % 256)

\* EthAddress([b; 20])
Address(b) == [i \in 1..20 |-> b]
EthAddresses == {Address(17), Address(34)}

\* Hashes the recipient before the token.
get_transfer_hash_recipient_first(token, recipient, nonce, amount) ==
    keccak256(recipient \o token \o BigEndian(nonce, 32) \o BigEndian(amount, 32))

get_transfer_hash(token, recipient, nonce, amount) ==
    keccak256(token \o recipient \o BigEndian(nonce, 32) \o BigEndian(amount, 32))

\* The 32-byte digest is one element of the concatenation.
get_fast_bridge_transfer_storage_key(token, recipient, nonce, amount) ==
    keccak256(<<get_transfer_hash(token, recipient, nonce, amount)>>
                \o BigEndian(STORAGE_KEY_SLOT, 32))

Nonces == 0..MaxNonce

\* (AccountId, TransferMessage) as get_pending_transfer returns it, reduced
\* to the fields the connector reads.
\* Addresses of the JSON response once hex-decoded: 20 bytes, or 19.
ShortAddress == [i \in 1..19 |-> 17]
PendingAddresses == EthAddresses \cup {ShortAddress}

\* Deserialize for EthAddress: `EthAddress(result.try_into().unwrap())`.
EthAddressDeserializes(bytes) == Len(bytes) = 20

PendingTransfers ==
    [text : {"json"}, token_eth : PendingAddresses, recipient : PendingAddresses,
     amount : Amounts,
     valid_till_block_height : {None} \cup {Some(h) : h \in 1..MaxHeight}]

\* Answers that are no (AccountId, TransferMessage): bytes that are not
\* UTF-8, and text serde_json rejects (null, another shape, an amount that
\* is not a decimal u128, an address that is not hex).
UndecodableTransfers ==
    [text : {"not_utf8", "not_json"}, token_eth : {<<>>}, recipient : {<<>>},
     amount : {1}, valid_till_block_height : {None}]

\* What the view call of get_pending_transfer answers.
PendingResponses == PendingTransfers \cup UndecodableTransfers

\* `String::from_utf8(response)?` then `serde_json::from_str(&json)?`: the
\* error either `?` returns.
PendingDecodeError(t) ==
    IF t.text = "not_utf8" THEN Err("UnknownError", "String::from_utf8")
    ELSE IF t.text = "not_json" THEN Err("UnknownError", "serde_json::from_str")
    ELSE Ok

\* near_rpc_client::view(.., "get_pending_transfer", {"id": nonce.to_string()})
PendingPre(name) ==
    IF name = "FastBridge.unlock"
    THEN FirstErr(<<eth_endpoint, near_endpoint, fast_bridge_account_id,
                    IsValid("fast_bridge_account_id")>>)
    ELSE FirstErr(<<fast_bridge_contract, near_endpoint, fast_bridge_account_id,
                    IsValid("fast_bridge_account_id")>>)

get_pending_transfer ==
    /\ pc = "get_pending_transfer"
    /\ LET pre == PendingPre(op.name)
           args == <<"fast_bridge_account_id", "get_pending_transfer",
                     Json([id |-> to_string(op.nonce)])>>
       IN
       IF pre # Ok THEN Finish(pre)
       ELSE \/ FailedCall("view", args, Err("NearRpcError", "RpcQueryError"))
            \/ /\ cfg["near_endpoint"] = "ok"
               /\ \E t \in PendingResponses :
                    /\ calls' = Append(calls, Call("view", args, "ok", t))
                    /\ IF PendingDecodeError(t) # Ok
                       THEN /\ result' = PendingDecodeError(t)
                            /\ pc' = "done"
                            /\ UNCHANGED loc
                       ELSE IF EthAddressDeserializes(t.token_eth)
                          /\ EthAddressDeserializes(t.recipient)
                       THEN /\ loc' = [loc EXCEPT !.pending = t]
                            /\ pc' = IF op.name = "FastBridge.unlock"
                                     THEN "get_storage_proof" ELSE "transfer_tokens"
                            /\ UNCHANGED result
                       ELSE /\ result' = Err("panic", "try_into().unwrap()")
                            /\ pc' = "done"
                            /\ UNCHANGED loc
    /\ UNCHANGED Env

\* Takes height 0 when the pending transfer has no height.
valid_till_block_height_unwrap_or_default(pending) == Ok

\* `pending_transfer.1.valid_till_block_height.ok_or(BridgeSdkError::UnknownError)?`
valid_till_block_height_ok_or(pending) ==
    IF pending.valid_till_block_height.some THEN Ok
    ELSE Err("UnknownError", "valid_till_block_height is None")

\* Passes amount and nonce to the slot key in the wrong order.
StorageProofArgs_swapped(pending, nonce) ==
    <<"fast_bridge_address",
      get_fast_bridge_transfer_storage_key(pending.token_eth, pending.recipient,
                                           pending.amount, nonce),
      pending.valid_till_block_height.v>>

\* Arguments of eth_proof::get_storage_proof: the contract, the slot and the
\* block height of the pending transfer.
StorageProofArgs(pending, nonce) ==
    <<"fast_bridge_address",
      get_fast_bridge_transfer_storage_key(pending.token_eth, pending.recipient,
                                           nonce, pending.amount),
      pending.valid_till_block_height.v>>

get_storage_proof ==
    /\ pc = "get_storage_proof"
    /\ IF fast_bridge_address # Ok THEN Finish(fast_bridge_address)
       ELSE IF valid_till_block_height_ok_or(loc.pending) # Ok
         THEN Finish(valid_till_block_height_ok_or(loc.pending))
       ELSE LET args == StorageProofArgs(loc.pending, op.nonce)
                proof == [address |-> args[1], key |-> args[2], block |-> args[3]]
            IN
            \/ \E e \in {Err("EthProofError", ""), Err("EthRpcError", "EthClientError")} :
                 FailedCall("get_storage_proof", args, e)
            \/ /\ cfg["eth_endpoint"] = "ok"
               /\ calls' = Append(calls, Call("get_storage_proof", args, "ok", proof))
               /\ loc' = [loc EXCEPT !.proof = proof]
               /\ pc' = "change_query"
               /\ UNCHANGED result
    /\ UNCHANGED Env

FastBridge_unlock ==
    \/ /\ \E n \in Nonces : Invoke([name |-> "FastBridge.unlock", nonce |-> n])
       /\ pc' = "get_pending_transfer"
    \/ /\ op.name = "FastBridge.unlock"
       /\ \/ get_pending_transfer
          \/ get_storage_proof
          \/ change_query
          \/ change_broadcast

\* ------------------------------------ FastBridge::complete_transfer_on_eth
UnlockRecipients == {"lp.testnet", "lp2.testnet"}

\* Sends the tokens without attaching the amount as value.
TransferTokensArgs_novalue(pending, nonce, unlock_recipient) ==
    [token |-> pending.token_eth, recipient |-> pending.recipient, nonce |-> nonce,
     amount |-> pending.amount, unlock_recipient |-> unlock_recipient,
     valid_till_block_height |-> pending.valid_till_block_height.v,
     value |-> 0]

\* fast_bridge.transfer_tokens(token_eth, recipient, nonce, amount,
\*     unlock_recipient, valid_till_block_height).value(amount)
TransferTokensArgs(pending, nonce, unlock_recipient) ==
    [token |-> pending.token_eth, recipient |-> pending.recipient, nonce |-> nonce,
     amount |-> pending.amount, unlock_recipient |-> unlock_recipient,
     valid_till_block_height |-> pending.valid_till_block_height.v,
     value |-> pending.amount]

transfer_tokens ==
    /\ pc = "transfer_tokens"
    /\ IF valid_till_block_height_ok_or(loc.pending) # Ok
         THEN Finish(valid_till_block_height_ok_or(loc.pending))
       ELSE LET args == TransferTokensArgs(loc.pending, op.nonce, op.unlock_recipient) IN
            \/ FailedCall("transferTokens", args, Err("EthRpcError", "SignerContractError"))
            \/ /\ calls' = Append(calls, Call("transferTokens", args, "ok", "tx_hash"))
               /\ result' = Ok
               /\ pc' = "done"
               /\ UNCHANGED loc
    /\ UNCHANGED Env

FastBridge_complete_transfer_on_eth ==
    \/ /\ \E n \in Nonces, u \in UnlockRecipients :
            Invoke([name |-> "FastBridge.complete_transfer_on_eth", nonce |-> n,
                    unlock_recipient |-> u])
       /\ pc' = "get_pending_transfer"
    \/ /\ op.name = "FastBridge.complete_transfer_on_eth"
       /\ \/ get_pending_transfer
          \/ transfer_tokens

\* ----------------------------------------- operations that are one change()
ValidTills == {1, 2}
Fees == {0, 1}

FastBridge_transfer ==
    \/ /\ \E a \in Amounts, f \in Fees, t \in EthAddresses, r \in EthAddresses,
             v \in ValidTills :
            Invoke([name |-> "FastBridge.transfer", token_id |-> "t.testnet",
                    amount |-> a, fee_amount |-> f, eth_token_address |-> t,
                    recipient |-> r, valid_till |-> v])
       /\ pc' = "change_query"
    \/ /\ op.name = "FastBridge.transfer"
       /\ \/ change_query
          \/ change_broadcast

FastBridge_withdraw ==
    \/ /\ \E a \in {None, Some(1)}, r \in {None, Some("bob.testnet")},
             m \in {None, Some("msg")} :
            Invoke([name |-> "FastBridge.withdraw", token_id |-> "t.testnet",
                    amount |-> a, recipient_id |-> r, msg |-> m])
       /\ pc' = "change_query"
    \/ /\ op.name = "FastBridge.withdraw"
       /\ \/ change_query
          \/ change_broadcast

Nep141Connector_deposit ==
    \/ /\ \E t \in Tokens \cup {InvalidAccountId}, a \in Amounts :
            Invoke([name |-> "Nep141Connector.deposit", near_token_id |-> t,
                    amount |-> a, receiver |-> "0xrecipient"])
       /\ pc' = "change_query"
    \/ /\ op.name = "Nep141Connector.deposit"
       /\ \/ change_query
          \/ change_broadcast

EthConnector_withdraw ==
    \/ /\ \E a \in Amounts, r \in EthAddresses :
            Invoke([name |-> "EthConnector.withdraw", amount |-> a,
                    recipient_address |-> r])
       /\ pc' = "change_query"
    \/ /\ op.name = "EthConnector.withdraw"
       /\ \/ change_query
          \/ change_broadcast

\* ------- Nep141Connector::log_token_metadata / storage_deposit_for_token
\* ------- / sign_transfer: one change() each
Nep141Connector_log_token_metadata ==
    \/ /\ Invoke([name |-> "Nep141Connector.log_token_metadata",
                  near_token_id |-> "t.testnet"])
       /\ pc' = "change_query"
    \/ /\ op.name = "Nep141Connector.log_token_metadata"
       /\ \/ change_query
          \/ change_broadcast

Nep141Connector_storage_deposit_for_token ==
    \/ /\ \E t \in Tokens \cup {InvalidAccountId}, a \in Amounts :
            Invoke([name |-> "Nep141Connector.storage_deposit_for_token",
                    near_token_id |-> t, amount |-> a])
       /\ pc' = "change_query"
    \/ /\ op.name = "Nep141Connector.storage_deposit_for_token"
       /\ \/ change_query
          \/ change_broadcast

Nep141Connector_sign_transfer ==
    \/ /\ \E n \in Nonces, r \in {None, Some("fee.testnet")}, f \in Fees :
            Invoke([name |-> "Nep141Connector.sign_transfer", origin_nonce |-> n,
                    fee_recepient |-> r, fee |-> f])
       /\ pc' = "change_query"
    \/ /\ op.name = "Nep141Connector.sign_transfer"
       /\ \/ change_query
          \/ change_broadcast

\* ----------------------------------------------- Nep141Connector::claim_fee
\* The endpoint, the Borsh bytes of the arguments, the locker account id
\* (unset: ConfigError; not an account id: UnknownError), then the view call
\* whose response is returned.
claim_fee_view ==
    /\ pc = "claim_fee"
    /\ LET pre == FirstErr(<<near_endpoint, token_locker_id>>)
           args == <<"token_locker_id", "claim_fee", Json(Borsh(op.args))>>
       IN
       IF pre # Ok THEN Finish(pre)
       ELSE IF ~AccountIdParses("token_locker_id")
         THEN Finish(Err("UnknownError", "token_locker_id.parse()"))
       ELSE \/ FailedCall("view", args, Err("NearRpcError", "RpcQueryError"))
            \/ /\ cfg["near_endpoint"] = "ok"
               /\ calls' = Append(calls, Call("view", args, "ok", "RpcQueryResponse"))
               /\ loc' = [loc EXCEPT !.returned = "RpcQueryResponse"]
               /\ result' = Ok
               /\ pc' = "done"
    /\ UNCHANGED Env

Nep141Connector_claim_fee ==
    \/ /\ Invoke([name |-> "Nep141Connector.claim_fee", args |-> "ClaimFeeArgs"])
       /\ pc' = "claim_fee"
    \/ /\ op.name = "Nep141Connector.claim_fee"
       /\ claim_fee_view

\* ------------------------------------ near_rpc_client: the block queries
\* These functions take the server address as an argument and read no
\* setting of a connector: they are called on a good builder.
\* BlockView, reduced to header.height and header.timestamp.
Blocks == [height : {1, MaxHeight}, timestamp : {7, 8}]

\* The block each function asks for.
BlockReference(name) ==
    CASE name = "near_rpc_client.get_final_block_timestamp" -> "Finality::Final"
      [] name = "near_rpc_client.get_last_near_block_height" -> "Finality::None"
      [] OTHER -> op.block_reference

\* What each function returns of the block it received.
BlockResult(name, block_info) ==
    CASE name = "near_rpc_client.get_final_block_timestamp" -> block_info.timestamp
      [] name = "near_rpc_client.get_last_near_block_height" -> block_info.height
      [] OTHER -> block_info

\* `client.call(RpcBlockRequest { block_reference }).await?`
block_request ==
    /\ pc = "block"
    /\ LET args == <<BlockReference(op.name)>> IN
       \/ FailedCall("block", args, Err("NearRpcError", "RpcBlockError"))
       \/ \E block_info \in Blocks :
            /\ calls' = Append(calls, Call("block", args, "ok", block_info))
            /\ loc' = [loc EXCEPT !.returned = BlockResult(op.name, block_info)]
            /\ result' = Ok
            /\ pc' = "done"
    /\ UNCHANGED Env

BlockQuery(name) ==
    \/ /\ cfg = AllOk
       /\ Invoke([name |-> name])
       /\ pc' = "block"
    \/ /\ op.name = name
       /\ block_request

near_rpc_client_get_final_block_timestamp ==
    BlockQuery("near_rpc_client.get_final_block_timestamp")
near_rpc_client_get_last_near_block_height ==
    BlockQuery("near_rpc_client.get_last_near_block_height")

near_rpc_client_get_block ==
    \/ /\ cfg = AllOk
       /\ \E b \in {"Finality::Final", "Finality::None", "BlockId::Height(1)"} :
            Invoke([name |-> "near_rpc_client.get_block", block_reference |-> b])
       /\ pc' = "block"
    \/ /\ op.name = "near_rpc_client.get_block"
       /\ block_request

\* --------------------------- near_rpc_client::change_and_wait_for_outcome
\* change(), then wait_for_tx_final_outcome for the hash it returned with the
\* signer's account and DEFAULT_WAIT_FINAL_OUTCOME_TIMEOUT_SEC.
near_rpc_client_change_and_wait_for_outcome ==
    \/ /\ cfg = AllOk
       /\ \E r \in ChangeRequests :
            /\ r.method = "withdraw"
            /\ Invoke([name |-> "near_rpc_client.change_and_wait_for_outcome",
                       receiver_id |-> r.receiver, method_name |-> r.method,
                       args |-> "args", gas |-> r.gas, deposit |-> r.deposit])
       /\ pc' = "change_query"
    \/ /\ op.name = "near_rpc_client.change_and_wait_for_outcome"
       /\ \/ change_query
          \/ change_broadcast
          \/ wait_for_tx_final_outcome

\* ---------------------------------------- EthConnector::finalize_deposit
LogIndexes == {0, 1}

\* eth_proof::get_event_proof(tx_hash, log_index, eth_endpoint)
finalize_deposit_proof ==
    /\ pc = "finalize_deposit_proof"
    /\ LET pre == FirstErr(<<eth_endpoint, near_endpoint>>) IN
       IF pre # Ok THEN Finish(pre)
       ELSE EventProofCall(IF op.name = "Nep141Connector.finalize_withdraw"
                           THEN "get_proof_for_event" ELSE "get_event_proof",
                           <<op.tx_hash, op.log_index>>)
    /\ UNCHANGED Env

EthConnector_finalize_deposit ==
    \/ /\ \E i \in LogIndexes :
            Invoke([name |-> "EthConnector.finalize_deposit", tx_hash |-> "eth_tx",
                    log_index |-> i])
       /\ pc' = "finalize_deposit_proof"
    \/ /\ op.name = "EthConnector.finalize_deposit"
       /\ \/ finalize_deposit_proof
          \/ change_query
          \/ change_broadcast

\* --------------------------------------- Nep141Connector::finalize_withdraw
\* The same steps as EthConnector::finalize_deposit, with the token locker as
\* receiver and a deposit attached.
Nep141Connector_finalize_withdraw ==
    \/ /\ \E i \in LogIndexes :
            Invoke([name |-> "Nep141Connector.finalize_withdraw", tx_hash |-> "eth_tx",
                    log_index |-> i])
       /\ pc' = "finalize_deposit_proof"
    \/ /\ op.name = "Nep141Connector.finalize_withdraw"
       /\ \/ finalize_deposit_proof
          \/ change_query
          \/ change_broadcast

\* ------------------------- EthConnector::deposit_to_near / deposit_to_evm
CustodianMethod(name) ==
    IF name = "EthConnector.deposit_to_near" THEN "depositToNear" ELSE "depositToEVM"

\* eth_custodian.deposit_to_x(recipient, U256::zero()).value(amount).send()
custodian_deposit ==
    /\ pc = "custodian_deposit"
    /\ LET args == [recipient |-> op.recipient, fee |-> 0, value |-> op.amount]
           m == CustodianMethod(op.name)
       IN
       IF eth_custodian # Ok THEN Finish(eth_custodian)
       ELSE \/ FailedCall(m, args, Err("EthRpcError", "SignerContractError"))
            \/ /\ calls' = Append(calls, Call(m, args, "ok", "tx_hash"))
               /\ result' = Ok
               /\ pc' = "done"
               /\ UNCHANGED loc
    /\ UNCHANGED Env

CustodianDeposit(name) ==
    \/ /\ \E a \in Amounts :
            Invoke([name |-> name, amount |-> a, recipient |-> "alice.testnet"])
       /\ pc' = "custodian_deposit"
    \/ /\ op.name = name
       /\ custodian_deposit

EthConnector_deposit_to_near == CustodianDeposit("EthConnector.deposit_to_near")
EthConnector_deposit_to_evm == CustodianDeposit("EthConnector.deposit_to_evm")

\* ------------------------------- Borsh codec of LightClientExecutionProof
\* Field names and types of the structs of light_client_proof.rs, in the
\* order of declaration.
Schema(type) ==
    CASE type = "LightClientExecutionProof" ->
            << <<"outcome_proof", "ExecutionOutcomeWithIdView">>,
               <<"outcome_root_proof", "MerklePath">>,
               <<"block_header_lite", "LightClientBlockLiteView">>,
               <<"block_proof", "MerklePath">> >>
      [] type = "ExecutionOutcomeWithIdView" ->
            << <<"proof", "MerklePath">>, <<"block_hash", "CryptoHash">>,
               <<"id", "CryptoHash">>, <<"outcome", "ExecutionOutcomeView">> >>
      [] type = "ExecutionOutcomeView" ->
            << <<"logs", "Vec<String>">>, <<"receipt_ids", "Vec<CryptoHash>">>,
               <<"gas_burnt", "u64">>, <<"tokens_burnt", "u128">>,
               <<"executor_id", "AccountId">>, <<"status", "ExecutionStatusView">> >>
      [] type = "LightClientBlockLiteView" ->
            << <<"prev_block_hash", "CryptoHash">>, <<"inner_rest_hash", "CryptoHash">>,
               <<"inner_lite", "BlockHeaderInnerLiteView">> >>
      [] type = "BlockHeaderInnerLiteView" ->
            << <<"height", "u64">>, <<"epoch_id", "CryptoHash">>,
               <<"next_epoch_id", "CryptoHash">>, <<"prev_state_root", "CryptoHash">>,
               <<"outcome_root", "CryptoHash">>, <<"timestamp_nanosec", "u64">>,
               <<"next_bp_hash", "CryptoHash">>, <<"block_merkle_root", "CryptoHash">> >>
      [] type = "MerklePathItem" ->
            << <<"hash", "CryptoHash">>, <<"direction", "Direction">> >>

VecTypes == {"MerklePath", "Vec<String>", "Vec<CryptoHash>", "Vec<u8>"}
VecElem(type) ==
    CASE type = "MerklePath" -> "MerklePathItem"
      [] type = "Vec<String>" -> "String"
      [] type = "Vec<CryptoHash>" -> "CryptoHash"
      [] type = "Vec<u8>" -> "u8"

\* Width in bytes of the fixed-size types.
FixedWidth(type) ==
    CASE type = "u64" -> 8 [] type = "u128" -> 16 [] type = "CryptoHash" -> 32

Reverse(s) == [i \in 1..Len(s) |-> s[Len(s) + 1 - i]]

\* Writes the count most significant byte first.
LE32_be(n) == <<n \div 16777216, (n \div 65536) % 256, (n \div 256) % 256, n % 256>>

\* u32 length prefix, little-endian.
LE32(n) == <<n % 256, (n \div 256) % 256, (n \div 65536) % 256, n \div 16777216>>

\* BorshSerialize, as derived: the fields in order, integers little-endian,
\* a u32 count before the items of a Vec or the bytes of a string, one tag
\* byte before the payload of an enum variant.
RECURSIVE serialize(_, _), serialize_fields(_, _), serialize_items(_, _)
serialize(v, type) ==
    CASE type = "u8" -> <<v>>
      [] type \in {"u64", "u128"} -> Reverse(v)
      [] type = "CryptoHash" -> v
      [] type \in {"String", "AccountId"} -> LE32(Len(v)) \o v
      [] type = "Direction" -> IF v = "Left" THEN <<0>> ELSE <<1>>
      [] type = "ExecutionStatusView" ->
            (CASE v.tag = "Unknown" -> <<0>>
               [] v.tag = "SuccessValue" -> <<2>> \o serialize(v.v, "Vec<u8>")
               [] v.tag = "SuccessReceiptId" -> <<3>> \o serialize(v.v, "CryptoHash"))
      [] type \in VecTypes -> LE32(Len(v)) \o serialize_items(v, VecElem(type))
      [] OTHER -> serialize_fields(v, Schema(type))
serialize_fields(v, schema) ==
    IF schema = <<>> THEN <<>>
    ELSE serialize(v[Head(schema)[1]], Head(schema)[2]) \o serialize_fields(v, Tail(schema))
serialize_items(items, type) ==
    IF items = <<>> THEN <<>>
    ELSE serialize(Head(items), type) \o serialize_items(Tail(items), type)

\* String::from_utf8: every byte that is not a continuation byte (10xxxxxx)
\* starts a character of one to four bytes: it is ASCII, or a lead byte
\* C2..DF, E0..EF or F0..F4 followed by exactly one, two or three
\* continuation bytes, the first of them in A0..BF after E0, 80..9F after
\* ED, 90..BF after F0 and 80..8F after F4 (no overlong form, no surrogate,
\* nothing above U+10FFFF); a continuation byte occurs nowhere else.
IsUtf8(s) ==
    LET IsContinuation(c) == c >= 128 /\ c <= 191
        Width(c) == IF c < 128 THEN 1
                    ELSE IF c >= 194 /\ c <= 223 THEN 2
                    ELSE IF c >= 224 /\ c <= 239 THEN 3
                    ELSE IF c >= 240 /\ c <= 244 THEN 4
                    ELSE 0
        SecondOk(c, d) == CASE c = 224 -> d >= 160
                            [] c = 237 -> d <= 159
                            [] c = 240 -> d >= 144
                            [] c = 244 -> d <= 143
                            [] OTHER -> TRUE
    IN /\ Len(s) > 0 => ~IsContinuation(s[1])
       /\ \A i \in 1..Len(s) :
             IsContinuation(s[i]) \/
               LET w == Width(s[i]) IN
               /\ w > 0
               /\ i + w - 1 <= Len(s)
               /\ \A j \in (i + 1)..(i + w - 1) : IsContinuation(s[j])
               /\ w > 1 => SecondOk(s[i], s[i + 1])
               /\ i + w <= Len(s) => ~IsContinuation(s[i + w])

\* AccountId::validate: 2 to 64 characters, a-z, 0-9 and the separators
\* '-', '_', '.', no separator first, last or next to another.
IsValidAccountId(s) ==
    LET IsSeparator(c) == c \in {45, 46, 95}
        IsAlnum(c) == (c >= 97 /\ c <= 122) \/ (c >= 48 /\ c <= 57)
    IN /\ Len(s) >= 2 /\ Len(s) <= 64
       /\ \A i \in 1..Len(s) :
             \/ IsAlnum(s[i])
             \/ IsSeparator(s[i]) /\ i > 1 /\ i < Len(s) /\ ~IsSeparator(s[i - 1])

\* State of the reader: whether reading succeeded so far, the position of
\* the next byte and the value read last.
Fail == [ok |-> FALSE, pos |-> 0, v |-> <<>>]
Unsupported == [ok |-> FALSE, pos |-> -1, v |-> <<>>]
Got(pos, v) == [ok |-> TRUE, pos |-> pos, v |-> v]

read_bytes(b, pos, n) ==
    IF pos + n - 1 <= Len(b) THEN Got(pos + n, SubSeq(b, pos, pos + n - 1)) ELSE Fail

\* u32::deserialize_reader of the count, little endian.  Every four bytes
\* are a count; it is kept, like the u64 and u128 values, as its base-256
\* digits, most significant first, so that the counts from 2^31 to 2^32 - 1
\* are values too.
read_len(b, pos) ==
    LET r == read_bytes(b, pos, 4) IN
    IF r.ok THEN Got(r.pos, Reverse(r.v)) ELSE Fail

\* The count c (four digits) is at most room, a number below 2^31.
CountFits(c, room) ==
    LET hi == 256 * c[1] + c[2]
        lo == 256 * c[3] + c[4]
    IN hi < room \div 65536 \/ (hi = room \div 65536 /\ lo <= room % 65536)

\* The number that the count c stands for, for a count below 2^31.
CountValue(c) == 16777216 * c[1] + 65536 * c[2] + 256 * c[3] + c[4]

\* One less than the count c, c not zero: a turn of "for _ in 0..len".
CountLess1(c) ==
    IF c[4] > 0 THEN <<c[1], c[2], c[3], c[4] - 1>>
    ELSE IF c[3] > 0 THEN <<c[1], c[2], c[3] - 1, 255>>
    ELSE IF c[2] > 0 THEN <<c[1], c[2] - 1, 255, 255>>
    ELSE <<c[1] - 1, 255, 255, 255>>

\* u8::vec_from_reader: the c bytes that follow the count, "Unexpected
\* length of input" when fewer than c bytes are left.
vec_from_reader(b, pos, c) ==
    IF CountFits(c, Len(b) - pos + 1) THEN read_bytes(b, pos, CountValue(c)) ELSE Fail

\* BorshDeserialize, as derived.  Reading a Failure status is reported as
\* Unsupported: TxExecutionError is outside this model.
RECURSIVE deserialize(_, _, _), deserialize_fields(_, _, _, _), deserialize_items(_, _, _, _, _)
deserialize(b, pos, type) ==
    CASE type = "u8" -> (LET r == read_bytes(b, pos, 1) IN
                         IF r.ok THEN Got(r.pos, r.v[1]) ELSE Fail)
      [] type \in {"u64", "u128"} ->
            (LET r == read_bytes(b, pos, FixedWidth(type)) IN
             IF r.ok THEN Got(r.pos, Reverse(r.v)) ELSE Fail)
      [] type = "CryptoHash" -> read_bytes(b, pos, 32)
      [] type \in {"String", "AccountId"} ->
            (LET n == read_len(b, pos)
                 r == vec_from_reader(b, n.pos, n.v)
             IN IF ~n.ok THEN Fail
                ELSE IF ~r.ok THEN Fail
                ELSE IF ~IsUtf8(r.v) THEN Fail
                ELSE IF type = "AccountId" /\ ~IsValidAccountId(r.v) THEN Fail
                ELSE r)
      [] type = "Direction" ->
            (LET r == read_bytes(b, pos, 1) IN
             IF ~r.ok THEN Fail
             ELSE IF r.v[1] = 0 THEN Got(r.pos, "Left")
             ELSE IF r.v[1] = 1 THEN Got(r.pos, "Right")
             ELSE Fail)
      [] type = "ExecutionStatusView" ->
            (LET r == read_bytes(b, pos, 1) IN
             IF ~r.ok THEN Fail
             ELSE IF r.v[1] = 0 THEN Got(r.pos, [tag |-> "Unknown", v |-> <<>>])
             ELSE IF r.v[1] = 1 THEN Unsupported
             ELSE IF r.v[1] = 2
                  THEN (LET x == deserialize(b, r.pos, "Vec<u8>") IN
                        IF x.ok THEN Got(x.pos, [tag |-> "SuccessValue", v |-> x.v]) ELSE x)
             ELSE IF r.v[1] = 3
                  THEN (LET x == deserialize(b, r.pos, "CryptoHash") IN
                        IF x.ok THEN Got(x.pos, [tag |-> "SuccessReceiptId", v |-> x.v]) ELSE x)
             ELSE Fail)
      [] type = "Vec<u8>" ->
            (LET n == read_len(b, pos) IN
             IF ~n.ok THEN Fail ELSE vec_from_reader(b, n.pos, n.v))
      [] type \in VecTypes ->
            (LET n == read_len(b, pos) IN
             IF ~n.ok THEN Fail ELSE deserialize_items(b, n.pos, VecElem(type), n.v, <<>>))
      [] OTHER -> deserialize_fields(b, pos, Schema(type), <<>>)
deserialize_fields(b, pos, schema, acc) ==
    IF schema = <<>> THEN Got(pos, acc)
    ELSE LET r == deserialize(b, pos, Head(schema)[2]) IN
         IF ~r.ok THEN r
         ELSE deserialize_fields(b, r.pos, Tail(schema), acc @@ (Head(schema)[1] :> r.v))
deserialize_items(b, pos, type, n, acc) ==
    IF n = <<0, 0, 0, 0>> THEN Got(pos, acc)
    ELSE LET r == deserialize(b, pos, type) IN
         IF ~r.ok THEN r
         ELSE deserialize_items(b, r.pos, type, CountLess1(n), Append(acc, r.v))

\* BorshDeserialize::try_from_slice: every byte must be consumed.
try_from_slice(b) ==
    LET r == deserialize(b, 1, "LightClientExecutionProof") IN
    IF r.ok /\ r.pos # Len(b) + 1 THEN Fail ELSE r

\* ------------------------------------------ the pure functions, applied
\* Responses of the NEAR node that the normalization is applied to: merkle
\* paths of up to MaxPath items, up to MaxProofLogs logs ("hi", the two-byte
\* character U+00E9, the three-byte U+20AC), the three statuses without an execution
\* error, the executors "a.b" and "x_y-1", two metadata and two timestamps.
MerklePaths ==
    SeqsUpTo({[hash |-> Hash32(11), direction |-> "Left"],
              [hash |-> Hash32(12), direction |-> "Right"]}, MaxPath)
ProofLogs == SeqsUpTo({<<104, 105>>, <<195, 169>>, <<226, 130, 172>>}, MaxProofLogs)
ProofResponses ==
    LET Statuses == {[tag |-> "Unknown", v |-> <<>>],
                     [tag |-> "SuccessValue", v |-> <<1, 2>>],
                     [tag |-> "SuccessReceiptId", v |-> Hash32(13)]}
        Executors == {SampleAccount, <<120, 95, 121, 45, 49>>}
        Metadatas == {[version |-> 1, gas_profile |-> None],
                      [version |-> 3, gas_profile |-> Some(<<>>)]}
        Timestamps == {U64(9), U64(10)}
    IN {[ProofResponse(1, "receiver", HashOf(2)) EXCEPT
           !.outcome_proof.proof = p1,
           !.outcome_proof.outcome.logs = l,
           !.outcome_proof.outcome.status = st,
           !.outcome_proof.outcome.executor_id = e,
           !.outcome_proof.outcome.metadata = m,
           !.block_header_lite.inner_lite.timestamp = t,
           !.block_proof = p2] :
        p1 \in MerklePaths, p2 \in MerklePaths, l \in ProofLogs, st \in Statuses,
        e \in Executors, m \in Metadatas, t \in Timestamps}

\* H160 values, and account texts of up to MaxRecipientLen characters.
H160s == {[i \in 1..20 |-> b] : b \in {0, 171, 255}} \cup {[i \in 1..20 |-> (i * 13) % 256]}
Recipients == SeqsUpTo({"a", ":", "x"}, MaxRecipientLen)
OmniAddresses ==
    [chain : {"Eth"}, recipient : H160s]
      \cup [chain : {"Near", "Sol"}, recipient : Recipients]

\* Texts handed to OmniAddress::from_str: a chain or another word, with or
\* without ':', followed by an account text or by hex digits of 19 to 21
\* bytes, of an odd length, in upper case, with or without "0x".
OmniTexts ==
    LET Words == {<<"e", "t", "h">>, <<"n", "e", "a", "r">>, <<"s", "o", "l">>,
                  <<"b", "t", "c">>, <<"E", "t", "h">>, <<>>}
        Digits == {hex_encode([i \in 1..n |-> b]) : n \in 19..21, b \in {0, 171}}
                    \cup {Tail(hex_encode([i \in 1..20 |-> 171])),
                          [i \in 1..40 |-> "A"], [i \in 1..40 |-> "g"]}
        Hexes == Digits \cup {<<"0", "x">> \o h : h \in Digits}
                        \cup {<<"0", "X">> \o h : h \in Digits}
    IN {w \o <<":">> \o r : w \in Words, r \in Recipients \cup Hexes}
         \cup Words \cup Hexes \cup {w \o r : w \in Words, r \in Hexes}

\* Byte strings handed to try_from_slice: the encoding of a proof with one
\* byte replaced, the last byte removed or one byte added, leaving out those
\* on which the reader meets a Failure status.
BaseProof ==
    [LightClientExecutionProof_from(ProofResponse(1, "receiver", HashOf(2))) EXCEPT
        !.outcome_proof.proof = <<[hash |-> Hash32(11), direction |-> "Right"]>>,
        !.outcome_proof.outcome.logs = << <<104, 105>> >>,
        !.outcome_proof.outcome.receipt_ids = <<Hash32(14)>>,
        !.outcome_proof.outcome.status = [tag |-> "SuccessValue", v |-> <<1, 2>>]]
BaseBytes == serialize(BaseProof, "LightClientExecutionProof")
ByteInputs ==
    {b \in {[BaseBytes EXCEPT ![i] = v] : i \in 1..Len(BaseBytes), v \in {0, 3, 255}}
            \cup {SubSeq(BaseBytes, 1, Len(BaseBytes) - 1), BaseBytes \o <<0>>} :
        try_from_slice(b) # Unsupported}

StorageKeyInputs ==
    [name : {"get_fast_bridge_transfer_storage_key"}, token : EthAddresses,
     recipient : EthAddresses, nonce : {0, 1, 258, 65535}, amount : {0, 1, 258, 65535}]

PureInputs ==
    {[name |-> "LightClientExecutionProof::from", response |-> r] : r \in ProofResponses}
      \cup {[name |-> "try_from_slice", bytes |-> b] : b \in ByteInputs}
      \cup StorageKeyInputs
      \cup {[name |-> "OmniAddress::to_string", address |-> a] : a \in OmniAddresses}
      \cup {[name |-> "OmniAddress::from_str", input |-> t] : t \in OmniTexts}

\* LightClientExecutionProof::from(response)
normalize ==
    /\ pc = "input" /\ op.name = "LightClientExecutionProof::from"
    /\ loc' = [loc EXCEPT !.proof = LightClientExecutionProof_from(op.response)]
    /\ pc' = "proof"
    /\ UNCHANGED <<cfg, lcHeight, op, calls, result, elapsed>>

\* proof.serialize(&mut buffer), of the normalized proof or of a decoded one
borsh_serialize ==
    /\ \/ /\ pc = "proof"
          /\ loc' = [loc EXCEPT !.bytes = serialize(loc.proof, "LightClientExecutionProof")]
          /\ pc' = "bytes"
       \/ /\ pc = "decoded" /\ loc.decoded.ok
          /\ loc' = [loc EXCEPT
                        !.rebytes = serialize(loc.decoded.v, "LightClientExecutionProof")]
          /\ pc' = "done"
    /\ UNCHANGED <<cfg, lcHeight, op, calls, result, elapsed>>

\* LightClientExecutionProof::try_from_slice(bytes)
borsh_try_from_slice ==
    /\ \/ /\ pc = "bytes"
          /\ loc' = [loc EXCEPT !.decoded = try_from_slice(loc.bytes)]
       \/ /\ pc = "input" /\ op.name = "try_from_slice"
          /\ loc' = [loc EXCEPT !.bytes = op.bytes, !.decoded = try_from_slice(op.bytes)]
    /\ pc' = "decoded"
    /\ UNCHANGED <<cfg, lcHeight, op, calls, result, elapsed>>

\* get_fast_bridge_transfer_storage_key(token, recipient, nonce, amount)
storage_key ==
    /\ pc = "input" /\ op.name = "get_fast_bridge_transfer_storage_key"
    /\ loc' = [loc EXCEPT !.key = get_fast_bridge_transfer_storage_key(
                                      op.token, op.recipient, op.nonce, op.amount)]
    /\ pc' = "done"
    /\ UNCHANGED <<cfg, lcHeight, op, calls, result, elapsed>>

\* address.to_string()
omni_address_to_string ==
    /\ pc = "input" /\ op.name = "OmniAddress::to_string"
    /\ loc' = [loc EXCEPT !.bytes = OmniAddress_to_string(op.address)]
    /\ pc' = "text"
    /\ UNCHANGED <<cfg, lcHeight, op, calls, result, elapsed>>

\* text.parse::<OmniAddress>(), of a displayed address or of a given text
omni_address_from_str ==
    /\ \/ /\ pc = "text"
          /\ loc' = [loc EXCEPT !.decoded = OmniAddress_from_str(loc.bytes)]
       \/ /\ pc = "input" /\ op.name = "OmniAddress::from_str"
          /\ loc' = [loc EXCEPT !.bytes = op.input,
                                !.decoded = OmniAddress_from_str(op.input)]
    /\ pc' = "done"
    /\ UNCHANGED <<cfg, lcHeight, op, calls, result, elapsed>>

PureInit ==
    /\ cfg = AllOk
    /\ lcHeight = WindowSize
    /\ op \in PureInputs
    /\ pc = "input"
    /\ loc = NoLoc
    /\ calls = <<>>
    /\ result = NoResult
    /\ elapsed = 0

PureNext ==
    \/ normalize
    \/ borsh_serialize
    \/ borsh_try_from_slice
    \/ storage_key
    \/ omni_address_to_string
    \/ omni_address_from_str

PureSpec == PureInit /\ [][PureNext]_vars

\* The caller has the result; the driver is ready for the next operation.
Return ==
    /\ pc = "done"
    /\ pc' = "idle"
    /\ op' = [name |-> "none"]
    /\ loc' = NoLoc
    /\ calls' = <<>>
    /\ result' = NoResult
    /\ elapsed' = 0
    /\ UNCHANGED <<cfg, lcHeight>>

\* The light client on EVM accepts the next NEAR block and drops the oldest hash.
LightClientAdvance ==
    /\ lcHeight < MaxHeight
    /\ lcHeight' = lcHeight + 1
    /\ UNCHANGED <<cfg, op, pc, loc, calls, result, elapsed>>

Init ==
    /\ cfg \in Settings
    /\ lcHeight = WindowSize
    /\ op = [name |-> "none"]
    /\ pc = "idle"
    /\ loc = NoLoc
    /\ calls = <<>>
    /\ result = NoResult
    /\ elapsed = 0

Next ==
    \/ LightClientAdvance
    \/ Return
    \/ EthConnector_finalize_withdraw
    \/ Nep141Connector_deploy_token
    \/ Nep141Connector_finalize_deposit
    \/ Nep141Connector_withdraw
    \/ Nep141Connector_finalize_deposit_omni
    \/ Nep141Connector_finalize_deposit_omni_with_log
    \/ FastBridge_lp_unlock
    \/ FastBridge_unlock
    \/ FastBridge_complete_transfer_on_eth
    \/ FastBridge_transfer
    \/ FastBridge_withdraw
    \/ Nep141Connector_deposit
    \/ Nep141Connector_finalize_withdraw
    \/ EthConnector_withdraw
    \/ EthConnector_finalize_deposit
    \/ EthConnector_deposit_to_near
    \/ EthConnector_deposit_to_evm
    \/ Nep141Connector_log_token_metadata
    \/ Nep141Connector_storage_deposit_for_token
    \/ Nep141Connector_sign_transfer
    \/ Nep141Connector_claim_fee
    \/ near_rpc_client_get_final_block_timestamp
    \/ near_rpc_client_get_last_near_block_height
    \/ near_rpc_client_get_block
    \/ near_rpc_client_change_and_wait_for_outcome

Spec == Init /\ [][Next]_vars

\* The sign-then-claim path alone, where every status request that was
\* issued returns and the loop goes on running.
WaitNext ==
    \/ Nep141Connector_finalize_deposit_omni
    \/ Return

WaitSpec == Init /\ [][WaitNext]_vars /\ WF_vars(wait_for_tx_final_outcome)
\* Two change() calls of one signer run side by side against one NEAR node.
ChangeInit == Init /\ cfg = AllOk

ChangeNext ==
    \/ ConcurrentChange
    \/ \E i \in 1..2 : change_query_of(i)
    \/ \E i \in 1..2 : change_broadcast_of(i)
    \/ IncludeTransaction

ChangeSpec == ChangeInit /\ [][ChangeNext]_vars

\* ------------------------------------------------------------- properties
Idx == 1..Len(calls)
ProofMethods == {"withdraw", "newBridgeToken", "deposit"}
IsProofSubmit(i) == op.name \in NearProofOps /\ calls[i].fn \in ProofMethods

\* C1: every finalization that consumes a NEAR proof on EVM submits exactly
\* the sync height H that bridgeState() returned to it, after asking
\* blockHashes(H) for that same H and requesting the NEAR proof at the hash
\* that blockHashes(H) returned.
C1_SubmitCarriesSyncHeight ==
    \A i \in Idx : IsProofSubmit(i) =>
        /\ i = 4
        /\ calls[1].fn = "bridgeState" /\ calls[1].res = "ok"
        /\ calls[i].args.proofBlockHeight = calls[1].val
        /\ calls[2].fn = "blockHashes" /\ calls[2].args = <<calls[1].val>>
        /\ calls[3].fn = "light_client_proof" /\ calls[3].args[3] = calls[2].val
        /\ calls[3].args[1] = op.receipt_id
        /\ calls[i].fn = ProofMethod(op.name)

\* A finalization submitted H although the light client has moved on since.
C1_Witness ==
    /\ op.name = "Nep141Connector.finalize_deposit"
    /\ result = Ok
    /\ Len(calls) = 4
    /\ calls[4].args.proofBlockHeight = calls[1].val
    /\ lcHeight > calls[1].val

\* C2: when a NEAR-proof finalization submits (proofBytes, H), H is at most
\* the light client's sync height and blockHashes(H) still equals the block
\* hash the proof was built at, whatever the light client did in between.
C2_SubmitMatchesLightClient ==
    \A i \in Idx : (IsProofSubmit(i) /\ calls[i].res = "ok") =>
        /\ calls[i].args.proofBlockHeight <= calls[i].args.lc_height
        /\ calls[i].args.lc_hash = calls[i].args.proof_head

\* C3: EthConnector.finalize_withdraw for a receipt whose NEAR block is above
\* the sync height the light client returned ends with LightClientLag and
\* submits no custodian.withdraw.
C3_LagReported ==
    ( /\ op.name = "EthConnector.finalize_withdraw"
      /\ pc = "done"
      /\ Len(calls) >= 3
      /\ ReceiptBlockHeight(op.receipt_id) > calls[1].val )
    => /\ result.kind = "LightClientLag"
       /\ \A i \in Idx : calls[i].fn # "withdraw"

InWithdraw == op.name = "Nep141Connector.withdraw"

\* C4: Nep141Connector.withdraw submits approve(factory, amount - allowance)
\* exactly when the allowance it read is strictly below the amount: the call
\* that follows the allowance read is that approve when allowance < amount
\* and the burn otherwise, and no other approve is ever sent.
C4_ApproveIffAllowanceShort ==
    InWithdraw =>
        /\ \A i \in Idx : calls[i].fn = "approve" =>
              /\ i = 3 /\ calls[2].fn = "allowance" /\ calls[2].res = "ok"
              /\ calls[2].val < op.amount
              /\ calls[i].args = <<"bridge_token_factory", op.amount - calls[2].val>>
        /\ (Len(calls) >= 3 /\ calls[2].val < op.amount) => calls[3].fn = "approve"
        /\ (Len(calls) >= 3 /\ calls[2].val >= op.amount) => calls[3].fn = "factory.withdraw"
        /\ (Len(calls) = 2 /\ calls[2].res = "ok" /\ pc # "done") =>
              (pc = "approve_send" <=> calls[2].val < op.amount)

\* The burn went out after an approve of the missing part of the allowance.
C4_Witness ==
    /\ InWithdraw /\ result = Ok
    /\ op.amount = 2 /\ calls[2].val = 1
    /\ calls[3].fn = "approve" /\ calls[3].args[2] = 1
    /\ calls[5].fn = "factory.withdraw"

\* C5: whenever an approve is issued the burn is submitted only after the
\* approve was awaited to a receipt; a failed send, a failed confirmation or
\* a missing receipt ends the operation with an error and no burn.
C5_BurnOnlyAfterApproveReceipt ==
    InWithdraw =>
        \A i \in Idx : calls[i].fn = "approve" =>
            /\ (\E k \in Idx : calls[k].fn = "factory.withdraw") =>
                  \E j \in Idx : /\ calls[j].fn = "approve.await"
                                 /\ calls[j].res = "ok" /\ calls[j].val = "receipt"
            /\ ( \/ calls[i].res = "err"
                 \/ \E j \in Idx : /\ calls[j].fn = "approve.await"
                                   /\ (calls[j].res = "err" \/ calls[j].val = "no_receipt") )
               => /\ \A k \in Idx : calls[k].fn # "factory.withdraw"
                  /\ pc # "withdraw_send"
InOmni == op.name = "Nep141Connector.finalize_deposit_omni"

\* C6: the sign-then-claim path fails with the finalization-timeout error
\* only once more than 500 seconds have passed without a result, not earlier.
C6_TimeoutOnlyAfter500s ==
    (InOmni /\ result = Err("NearRpcError", "FinalizationError"))
        => as_secs(elapsed) > DEFAULT_WAIT_FINAL_OUTCOME_TIMEOUT_SEC

\* Receipts of the final outcome whose first log is a SignTransferEvent.
SignReceipts(o) ==
    {k \in 1..Len(o) : Len(o[k]) >= 1 /\ o[k][1].event = "SignTransferEvent"}

\* C7: finalize_deposit_omni succeeds in reaching deposit_omni whenever the
\* outcome it polled holds a SignTransferEvent log (for an Eth recipient),
\* whatever the number of logs of that receipt outcome.
C7_SucceedsOnSignTransferLog ==
    ( /\ InOmni /\ pc = "done" /\ cfg = AllOk
      /\ Len(calls) >= 1 /\ calls[1].fn = "tx"
      /\ SignReceipts(calls[1].val) # {}
      /\ \A k \in SignReceipts(calls[1].val) : calls[1].val[k][1].recipient = "eth" )
    => /\ Len(calls) = 2
       /\ calls[2].fn = "deposit_omni"

IsError(r) == r.kind \notin {"Ok", "none"}

\* A remote call that returned an error is the last call of the invocation,
\* and the invocation has ended with an error.
FailedCallsEnd ==
    \A i \in Idx : calls[i].res = "err" =>
        /\ i = Len(calls)
        /\ pc = "done"
        /\ IsError(result)

\* C8 as stated: no layer retries, so any error of a remote call, including
\* an error reported by the RPC server to a status poll, ends the operation.
C8_NoRetryAtAnyLayer ==
    /\ FailedCallsEnd
    /\ loc.lastPoll \in {"handler_error", "transport_error"} =>
          (pc = "done" /\ IsError(result))

InLpUnlock == op.name = "FastBridge.lp_unlock"

\* Logs of a receipt whose topic-0 is the TransferTokens signature hash.
Matching(logs) ==
    {k \in 1..Len(logs) : Len(logs[k].topics) >= 1 /\ logs[k].topics[1] = log_to_find}
FirstMatching(logs) == CHOOSE k \in Matching(logs) : \A j \in Matching(logs) : k <= j

\* C9: lp_unlock fails with a proof-build error and submits nothing when no
\* log of the receipt has the TransferTokens topic-0; otherwise it asks for
\* the receipt proof of the first matching log and submits lp_unlock with
\* gas 120 x 10^12 and deposit 0.
C9_LpUnlockScansLogs ==
    (InLpUnlock /\ Len(calls) >= 1 /\ calls[1].res = "ok") =>
        LET logs == calls[1].val IN
        IF Matching(logs) = {}
        THEN /\ Len(calls) = 1
             /\ pc = "done" => result.kind = "EthProofError"
        ELSE /\ pc = "done" => Len(calls) >= 2
             /\ Len(calls) >= 2 =>
                   /\ calls[2].fn = "get_event_proof"
                   /\ calls[2].args = <<op.tx_hash, logs[FirstMatching(logs)].log_index>>
             /\ \A i \in Idx : calls[i].fn = "broadcast_tx_async" =>
                   /\ calls[i].args.actions[1].method_name = "lp_unlock"
                   /\ calls[i].args.actions[1].gas = 120
                   /\ calls[i].args.actions[1].deposit = 0

InUnlock == op.name = "FastBridge.unlock"

\* be256(n) written out for n < 2^16.
Be256(n) == [i \in 1..32 |-> IF i = 32 THEN n % 256 ELSE IF i = 31 THEN (n \div 256) % 256 ELSE 0]

\* keccak256(keccak256(token || recipient || be256(nonce) || be256(amount)) || be256(302))
SlotKey(token, recipient, nonce, amount) ==
    [keccak256 |->
        <<[keccak256 |-> token \o recipient \o Be256(nonce) \o Be256(amount)]>> \o Be256(302)]

\* C10: unlock(nonce) fetches the pending transfer of that nonce, asks for the
\* storage proof of the fast-bridge contract at the slot key of the
\* transfer's (token_eth, recipient, nonce, amount) and at the transfer's
\* valid_till_block_height, and submits unlock with the same nonce and the
\* Borsh-then-base64 proof.
C10_UnlockProvesPendingTransfer ==
    InUnlock =>
        /\ \A i \in Idx : calls[i].fn = "get_storage_proof" =>
              /\ i = 2
              /\ calls[1].fn = "view" /\ calls[1].res = "ok"
              /\ calls[1].args = <<"fast_bridge_account_id", "get_pending_transfer",
                                   [json |-> [id |-> [decimal |-> op.nonce]]]>>
              /\ calls[1].val.text = "json"
              /\ calls[1].val.valid_till_block_height.some
              /\ calls[i].args =
                    <<"fast_bridge_address",
                      SlotKey(calls[1].val.token_eth, calls[1].val.recipient,
                              op.nonce, calls[1].val.amount),
                      calls[1].val.valid_till_block_height.v>>
        /\ \A i \in Idx : calls[i].fn = "broadcast_tx_async" =>
              /\ i = 4
              /\ calls[2].fn = "get_storage_proof" /\ calls[2].res = "ok"
              /\ calls[2].val.block = calls[1].val.valid_till_block_height.v
              /\ calls[i].args.receiver_id = "fast_bridge_account_id"
              /\ calls[i].args.actions[1].method_name = "unlock"
              /\ calls[i].args.actions[1].args =
                    [json |-> [nonce |-> [decimal |-> op.nonce],
                               proof |-> [base64 |-> [borsh |-> calls[2].val]]]]

\* unlock(1) went through for a transfer of amount 2 valid till block 3.
C10_Witness ==
    /\ InUnlock /\ result = Ok
    /\ op.nonce = 1
    /\ calls[1].val.amount = 2
    /\ calls[1].val.token_eth # calls[1].val.recipient
    /\ calls[2].args[3] = 3
    /\ calls[4].res = "ok"

InComplete == op.name = "FastBridge.complete_transfer_on_eth"

\* C11: complete_transfer_on_eth(nonce, lpRecipient) submits transferTokens
\* whose token, recipient, amount and valid-till block height are those of the
\* pending transfer fetched for that nonce, whose nonce and unlock recipient
\* are the caller's arguments, and whose attached value is the transfer's
\* amount.
C11_TransferTokensOfPendingTransfer ==
    InComplete =>
        \A i \in Idx : calls[i].fn = "transferTokens" =>
            /\ i = 2
            /\ calls[1].fn = "view" /\ calls[1].res = "ok"
            /\ calls[1].args = <<"fast_bridge_account_id", "get_pending_transfer",
                                 [json |-> [id |-> [decimal |-> op.nonce]]]>>
            /\ calls[1].val.text = "json"
            /\ calls[1].val.valid_till_block_height.some
            /\ calls[i].args.token = calls[1].val.token_eth
            /\ calls[i].args.recipient = calls[1].val.recipient
            /\ calls[i].args.amount = calls[1].val.amount
            /\ calls[i].args.valid_till_block_height = calls[1].val.valid_till_block_height.v
            /\ calls[i].args.nonce = op.nonce
            /\ calls[i].args.unlock_recipient = op.unlock_recipient
            /\ calls[i].args.value = calls[1].val.amount

\* The transfer of nonce 1, amount 2, valid till block 3 was completed for
\* the second liquidity provider.
C11_Witness ==
    /\ InComplete /\ result = Ok
    /\ op.nonce = 1 /\ op.unlock_recipient = "lp2.testnet"
    /\ calls[1].val.token_eth # calls[1].val.recipient
    /\ calls[2].args.value = 2
    /\ calls[2].args.valid_till_block_height = 3

InTransfer == op.name = "FastBridge.transfer"

\* C12: FastBridge.transfer sends ft_transfer_call to the token contract with
\* receiver_id = the fast-bridge account and msg = base64(Borsh(m)), where m
\* carries the caller's valid_till, token id, EVM token address, amount, fee
\* amount in the same token id and recipient, and has neither a
\* valid_till_block_height nor an aurora_sender.
C12_TransferMessageCarriesArguments ==
    InTransfer =>
        \A i \in Idx : calls[i].fn = "broadcast_tx_async" =>
            LET a == calls[i].args.actions[1] IN
            /\ calls[i].args.receiver_id = op.token_id
            /\ a.method_name = "ft_transfer_call"
            /\ a.args.json.receiver_id = "fast_bridge_account_id"
            /\ a.args.json.amount = [decimal |-> op.amount]
            /\ a.args.json.msg =
                  [base64 |-> [borsh |->
                     [valid_till |-> op.valid_till,
                      transfer |-> [token_near |-> op.token_id,
                                    token_eth |-> op.eth_token_address,
                                    amount |-> op.amount],
                      fee |-> [token |-> op.token_id, amount |-> op.fee_amount],
                      recipient |-> op.recipient,
                      valid_till_block_height |-> [some |-> FALSE, v |-> 0],
                      aurora_sender |-> [some |-> FALSE, v |-> 0]]]]

\* A transfer of amount 2 with fee 1, valid till 2, was broadcast.
C12_Witness ==
    /\ InTransfer /\ result = Ok
    /\ op.amount = 2 /\ op.fee_amount = 1 /\ op.valid_till = 2
    /\ op.eth_token_address # op.recipient
    /\ calls[2].fn = "broadcast_tx_async" /\ calls[2].res = "ok"

\* C13: every ft_transfer_call the driver broadcasts on NEAR carries 200 x
\* 10^12 gas and a deposit of 1 yoctoNEAR, and lp_unlock carries 120 x 10^12
\* gas.
C13_FtTransferCallGas ==
    \A i \in Idx : calls[i].fn = "broadcast_tx_async" =>
        LET a == calls[i].args.actions[1] IN
        /\ a.method_name = "ft_transfer_call" => (a.gas = 200 /\ a.deposit = 1)
        /\ a.method_name = "lp_unlock" => a.gas = 120

EthSignerFields == {"eth_endpoint", "eth_chain_id", "eth_private_key"}
NearSignerFields == {"near_private_key", "near_signer"}

\* The settings each operation reads on its way to a successful end.
Reads(name) ==
    CASE name = "EthConnector.deposit_to_near" -> EthSignerFields \cup {"eth_custodian_address"}
      [] name = "EthConnector.deposit_to_evm" -> EthSignerFields \cup {"eth_custodian_address"}
      [] name = "EthConnector.finalize_deposit" ->
            NearSignerFields \cup {"eth_endpoint", "near_endpoint", "eth_connector_account_id"}
      [] name = "EthConnector.withdraw" ->
            NearSignerFields \cup {"near_endpoint", "eth_connector_account_id"}
      [] name = "EthConnector.finalize_withdraw" ->
            EthSignerFields \cup {"near_endpoint", "near_light_client_address",
                                  "eth_connector_account_id", "eth_custodian_address"}
      [] name \in {"Nep141Connector.deploy_token", "Nep141Connector.finalize_deposit"} ->
            EthSignerFields \cup {"near_endpoint", "near_light_client_address",
                                  "token_locker_id", "bridge_token_factory_address"}
      [] name = "Nep141Connector.deposit" ->
            NearSignerFields \cup {"near_endpoint", "token_locker_id"}
      [] name = "Nep141Connector.finalize_withdraw" ->
            NearSignerFields \cup {"eth_endpoint", "near_endpoint", "token_locker_id"}
      [] name = "Nep141Connector.withdraw" ->
            EthSignerFields \cup {"bridge_token_factory_address"}
      [] name = "Nep141Connector.finalize_deposit_omni" ->
            EthSignerFields \cup {"near_endpoint", "near_signer", "bridge_token_factory_address"}
      [] name = "Nep141Connector.finalize_deposit_omni_with_log" ->
            EthSignerFields \cup {"bridge_token_factory_address"}
      [] name \in {"Nep141Connector.log_token_metadata",
                   "Nep141Connector.storage_deposit_for_token",
                   "Nep141Connector.sign_transfer"} ->
            NearSignerFields \cup {"near_endpoint", "token_locker_id"}
      [] name = "Nep141Connector.claim_fee" -> {"near_endpoint", "token_locker_id"}
      [] name = "FastBridge.transfer" ->
            NearSignerFields \cup {"near_endpoint", "fast_bridge_account_id"}
      [] name = "FastBridge.withdraw" ->
            NearSignerFields \cup {"near_endpoint", "fast_bridge_account_id"}
      [] name = "FastBridge.complete_transfer_on_eth" ->
            EthSignerFields \cup {"near_endpoint", "fast_bridge_account_id", "fast_bridge_address"}
      [] name = "FastBridge.lp_unlock" ->
            NearSignerFields \cup {"eth_endpoint", "near_endpoint", "fast_bridge_account_id"}
      [] name = "FastBridge.unlock" ->
            NearSignerFields \cup {"eth_endpoint", "near_endpoint", "fast_bridge_account_id",
                                   "fast_bridge_address"}
      [] OTHER -> {}

\* Calls that submit a transaction on NEAR or on EVM.
TransactionCalls ==
    {"withdraw", "newBridgeToken", "deposit", "approve", "factory.withdraw",
     "deposit_omni", "transferTokens", "depositToNear", "depositToEVM",
     "broadcast_tx_async"}

NoTransactionSubmitted == \A i \in Idx : calls[i].fn \notin TransactionCalls
\* The operation did not end on the failure of a remote call.
NoCallFailed ==
    /\ \A i \in Idx : calls[i].res = "ok"
    /\ result.kind \notin {"NearRpcError", "EthRpcError", "EthProofError"}

\* Results that are due to what a remote call answered, not to a setting.
ResponseErrors ==
    {Err("NearRpcError", "NonceError"),
     Err("EthProofError", "Log to generate proof from not found"),
     Err("panic", "try_into().unwrap()"),
     Err("panic", "log.topics[0]: index out of bounds"),
     Err("UnknownError", "valid_till_block_height is None"),
     Err("UnknownError", "String::from_utf8"),
     Err("UnknownError", "serde_json::from_str"),
     Err("UnknownError", "no SignTransferEvent log"),
     Err("UnknownError", "serde_json"),
     Err("UnknownError", "event"),
     Err("UnknownError", "recipient")}

\* C14: an operation that ends while a setting it needs is unset or malformed
\* (no remote call having failed or answered something unusable before the
\* setting was looked at) returns ConfigError and has submitted no
\* transaction on either chain.
C14_BadSettingIsConfigError ==
    ( /\ pc = "done"
      /\ NoCallFailed
      /\ result \notin ResponseErrors
      /\ \E f \in Reads(op.name) : cfg[f] # "ok" )
    => /\ result = ConfigError
       /\ NoTransactionSubmitted

\* The operations each setting's doc comment lists under "Required for",
\* turned around: the settings documented as required for an operation.
DocRequired(name) ==
    CASE name \in {"EthConnector.deposit_to_near", "EthConnector.deposit_to_evm"} ->
            {"eth_endpoint", "eth_chain_id", "eth_private_key", "eth_custodian_address"}
      [] name = "EthConnector.finalize_withdraw" ->
            {"eth_endpoint", "eth_chain_id", "eth_private_key", "eth_custodian_address",
             "near_endpoint", "eth_connector_account_id", "near_light_client_address"}
      [] name \in {"EthConnector.finalize_deposit", "EthConnector.withdraw"} ->
            {"near_endpoint", "near_private_key", "near_signer", "eth_connector_account_id"}
      [] name = "FastBridge.complete_transfer_on_eth" ->
            {"eth_endpoint", "eth_chain_id", "eth_private_key", "near_endpoint",
             "fast_bridge_address"}
      [] name = "FastBridge.lp_unlock" ->
            {"eth_endpoint", "eth_chain_id", "near_endpoint", "near_private_key",
             "near_signer", "fast_bridge_account_id"}
      [] name \in {"FastBridge.transfer", "FastBridge.withdraw"} ->
            {"near_endpoint", "near_private_key", "near_signer", "fast_bridge_account_id"}
      [] OTHER -> {}

DocumentedOps ==
    {"EthConnector.deposit_to_near", "EthConnector.deposit_to_evm",
     "EthConnector.finalize_deposit", "EthConnector.withdraw",
     "EthConnector.finalize_withdraw", "FastBridge.transfer", "FastBridge.withdraw",
     "FastBridge.complete_transfer_on_eth", "FastBridge.lp_unlock", "FastBridge.unlock"}

\* C15: for EthConnector and FastBridge an operation returns ConfigError for
\* an unset setting exactly when that setting's doc comment lists the
\* operation under "Required for": with a listed setting unset the operation
\* ends with ConfigError, and it ends with ConfigError for an unset setting
\* only if the setting is listed.
C15_RequiredForMatchesCode ==
    ( /\ pc = "done"
      /\ op.name \in DocumentedOps
      /\ NoCallFailed
      /\ result \notin ResponseErrors )
    => \A f \in Fields : cfg[f] = "unset" =>
          (f \in DocRequired(op.name) <=> result = ConfigError)

InCodec == op.name \in {"LightClientExecutionProof::from", "try_from_slice"}

\* C16: Borsh decoding and encoding of LightClientExecutionProof are inverse
\* to each other: decoding the encoding of a proof record gives the record
\* back, and encoding what a byte string decoded to gives the same bytes.
C16_BorshRoundTrip ==
    InCodec =>
        /\ (op.name = "LightClientExecutionProof::from" /\ pc \in {"decoded", "done"}) =>
              (loc.decoded.ok /\ loc.decoded.v = loc.proof)
        /\ pc = "done" => loc.rebytes = loc.bytes

\* A byte string that is not the encoding it was derived from decoded, to a
\* proof with a log and a merkle path, and was encoded back.
C16_Witness ==
    /\ op.name = "try_from_slice" /\ pc = "done"
    /\ op.bytes # BaseBytes
    /\ Len(loc.decoded.v.outcome_proof.proof) = 1
    /\ Len(loc.decoded.v.outcome_proof.outcome.logs) = 1
    /\ loc.rebytes = op.bytes

DropField(rec, name) == [f \in DOMAIN rec \ {name} |-> rec[f]]
Names(schema) == [i \in 1..Len(schema) |-> schema[i][1]]

\* Field order of the two views of near_primitives that lose a field.
RpcExecutionOutcomeViewFields ==
    <<"logs", "receipt_ids", "gas_burnt", "tokens_burnt", "executor_id", "status", "metadata">>
RpcBlockHeaderInnerLiteViewFields ==
    <<"height", "epoch_id", "next_epoch_id", "prev_state_root", "outcome_root", "timestamp",
      "timestamp_nanosec", "next_bp_hash", "block_merkle_root">>
IsNotMetadata(n) == n # "metadata"
IsNotTimestamp(n) == n # "timestamp"

\* C17: the normalized proof is the response without metadata of
\* outcome_proof.outcome and without timestamp of block_header_lite.inner_lite;
\* every other field, timestamp_nanosec included, has the value it has in the
\* response, and the remaining fields keep their order.
C17_NormalizationDropsTwoFields ==
    (op.name = "LightClientExecutionProof::from" /\ pc # "input") =>
        /\ loc.proof =
              [op.response EXCEPT
                 !.outcome_proof.outcome = DropField(@, "metadata"),
                 !.block_header_lite.inner_lite = DropField(@, "timestamp")]
        /\ Names(Schema("ExecutionOutcomeView")) =
              SelectSeq(RpcExecutionOutcomeViewFields, IsNotMetadata)
        /\ Names(Schema("BlockHeaderInnerLiteView")) =
              SelectSeq(RpcBlockHeaderInnerLiteViewFields, IsNotTimestamp)

\* A response whose timestamp differs from its timestamp_nanosec was
\* normalized and kept timestamp_nanosec.
C17_Witness ==
    /\ op.name = "LightClientExecutionProof::from" /\ pc = "proof"
    /\ op.response.block_header_lite.inner_lite.timestamp = U64(10)
    /\ loc.proof.block_header_lite.inner_lite.timestamp_nanosec = U64(9)
    /\ op.response.outcome_proof.outcome.metadata.version = 3
    /\ Len(loc.proof.outcome_proof.proof) = 1

\* C18: the proof bytes of the three NEAR-proof finalizations are the
\* serialization of the normalized proof of the response that was fetched,
\* so they encode neither the outcome metadata nor the inner-lite timestamp.
C18_SubmitsNormalizedProof ==
    \A i \in Idx : IsProofSubmit(i) =>
        /\ calls[i - 1].fn = "light_client_proof"
        /\ calls[i].args.proof = Borsh(LightClientExecutionProof_from(calls[i - 1].val))

\* C19: get_fast_bridge_transfer_storage_key(token, recipient, nonce, amount)
\* is keccak256(keccak256(token || recipient || be256(nonce) || be256(amount))
\* || be256(302)).
C19_StorageKeyFormula ==
    (op.name = "get_fast_bridge_transfer_storage_key" /\ pc = "done") =>
        loc.key = SlotKey(op.token, op.recipient, op.nonce, op.amount)

\* The key was computed for nonce 258, amount 65535 and two different addresses.
C19_Witness ==
    /\ op.name = "get_fast_bridge_transfer_storage_key" /\ pc = "done"
    /\ op.nonce = 258 /\ op.amount = 65535 /\ op.token # op.recipient
    /\ Len(loc.key.keccak256) = 33
    /\ loc.key.keccak256[1].keccak256[71] = 1 /\ loc.key.keccak256[1].keccak256[72] = 2

\* C20: no operation panics, whatever the input: an account id that does not
\* parse, a pending transfer with an address of other than 20 bytes and an
\* Ethereum log without topics all end in an error value.
C20_NoOperationPanics == result.kind # "panic"

\* The transaction an operation exists to submit (an approve comes before
\* the withdraw it prepares).
FinalSubmissions == TransactionCalls \ {"approve"}

\* Functions that read the chain and submit nothing.
BlockQueries ==
    {"near_rpc_client.get_final_block_timestamp",
     "near_rpc_client.get_last_near_block_height", "near_rpc_client.get_block"}
ReadOnly == BlockQueries \cup {"Nep141Connector.claim_fee"}
\* Functions of the NEAR RPC client that no connector operation calls.
ClientFunctions == BlockQueries \cup {"near_rpc_client.change_and_wait_for_outcome"}

\* The remote calls of each operation in the order of its code.
StepSequences(name) ==
    CASE name \in NearProofOps ->
            {<<"bridgeState", "blockHashes", "light_client_proof", ProofMethod(name)>>}
      [] name = "FastBridge.unlock" ->
            {<<"view", "get_storage_proof", "query", "broadcast_tx_async">>}
      [] name = "FastBridge.complete_transfer_on_eth" -> {<<"view", "transferTokens">>}
      [] name = "FastBridge.lp_unlock" ->
            {<<"eth_getTransactionReceipt", "get_event_proof", "query", "broadcast_tx_async">>}
      [] name = "EthConnector.finalize_deposit" ->
            {<<"get_event_proof", "query", "broadcast_tx_async">>}
      [] name = "Nep141Connector.finalize_withdraw" ->
            {<<"get_proof_for_event", "query", "broadcast_tx_async">>}
      [] name \in {"FastBridge.transfer", "FastBridge.withdraw", "Nep141Connector.deposit",
                   "EthConnector.withdraw", "Nep141Connector.log_token_metadata",
                   "Nep141Connector.storage_deposit_for_token",
                   "Nep141Connector.sign_transfer"} ->
            {<<"query", "broadcast_tx_async">>}
      [] name = "Nep141Connector.claim_fee" -> {<<"view">>}
      [] name \in BlockQueries -> {<<"block">>}
      [] name = "near_rpc_client.change_and_wait_for_outcome" ->
            {<<"query", "broadcast_tx_async", "tx">>}
      [] name = "Nep141Connector.withdraw" ->
            {<<"nearToEthToken", "allowance", "factory.withdraw">>,
             <<"nearToEthToken", "allowance", "approve", "approve.await", "factory.withdraw">>}
      [] name = "Nep141Connector.finalize_deposit_omni" -> {<<"tx", "deposit_omni">>}
      [] name = "Nep141Connector.finalize_deposit_omni_with_log" -> {<<"deposit_omni">>}
      [] name = "EthConnector.deposit_to_near" -> {<<"depositToNear">>}
      [] name = "EthConnector.deposit_to_evm" -> {<<"depositToEVM">>}
      [] OTHER -> {<<>>}

CallNames == [i \in Idx |-> calls[i].fn]

Retryable == {"handler_error", "no_outcome"}
Within == as_secs(loc.at) <= WaitTimeoutSec(op.name)

\* C23: a status poll that is not the first follows a poll that returned,
\* within the deadline, a handler error or a response without final outcome,
\* and is issued exactly one 2-second sleep after that poll completed; a poll
\* that fails within the deadline with another error ends the wait at once
\* with RpcTransactionError, and one that returns a final outcome within the
\* deadline ends it with that outcome.
C23_PollAgainAfterSleep ==
    [][ /\ (pc = "tx_status" /\ pc' = "tx_status_response" /\ loc.response # "none") =>
              /\ loc.response \in Retryable
              /\ Within
              /\ elapsed = loc.at + PollSleepSec * TicksPerSec
        /\ (pc = "tx_status_response" /\ pc' # pc) =>
              /\ pc' = "tx_status" <=> (Within /\ loc.response \in Retryable)
              /\ pc' = "tx_status" => elapsed' = loc.at + PollSleepSec * TicksPerSec
              /\ (Within /\ loc.response = "transport_error") =>
                    /\ pc' = "done"
                    /\ result' = Err("NearRpcError", "RpcTransactionError")
                    /\ elapsed' = loc.at
              /\ (Within /\ loc.response = "outcome") =>
                    /\ pc' = "tx_outcome"
                    /\ result' = NoResult
        /\ (pc = "tx_outcome" /\ pc' # pc) =>
              /\ pc' \in {"deposit_omni", "done"}
              /\ pc' = "done" => result' = Ok
              /\ calls'[Len(calls')].fn = "tx"
              /\ calls'[Len(calls')].res = "ok"
              /\ loc'.outcome = calls'[Len(calls')].val
    ]_vars

\* The second poll was issued one sleep after the first, which had returned
\* no final outcome, and got its response one tick later.
C23_Witness ==
    /\ InOmni /\ pc = "tx_status_response"
    /\ loc.lastPoll = "no_outcome"
    /\ loc.response = "outcome"
    /\ loc.at = PollSleepSec * TicksPerSec + 1

\* C24: the deadline check comes before the match on the response: a poll
\* that completes with more than timeout_sec whole seconds elapsed gives
\* FinalizationError whatever it returned, and a poll that completes with
\* exactly timeout_sec whole seconds elapsed is processed as usual.
C24_DeadlineBeforeResponse ==
    [][(pc = "tx_status_response" /\ pc' # pc) =>
          IF as_secs(loc.at) > WaitTimeoutSec(op.name)
          THEN /\ pc' = "done"
               /\ result' = Err("NearRpcError", "FinalizationError")
          ELSE /\ result' # Err("NearRpcError", "FinalizationError")
               /\ loc'.lastPoll = loc.response
               /\ loc.response = "transport_error" =>
                     result' = Err("NearRpcError", "RpcTransactionError")
               /\ loc.response \in Retryable => pc' = "tx_status"
               /\ loc.response = "outcome" => pc' = "tx_outcome"
    ]_vars

\* A poll that returned a final outcome completed half a second after the
\* 31st second and the wait ended with FinalizationError.
C24_Witness ==
    /\ InOmni /\ pc = "done"
    /\ loc.response = "outcome"
    /\ as_secs(loc.at) = FinalizeDepositOmniTimeoutSec + 1
    /\ loc.at % TicksPerSec # 0
    /\ result = Err("NearRpcError", "FinalizationError")

InWait == pc \in {"tx_status", "tx_status_response", "tx_outcome"}

\* C25: wait_for_tx_final_outcome terminates when every status request
\* returns: it ends with an outcome, with RpcTransactionError or with
\* FinalizationError, and it issues no poll after a poll that completed
\* later than timeout_sec seconds from the start.
C25_WaitTerminates ==
    /\ InWait ~> ~InWait
    /\ [][(pc = "tx_status_response" /\ pc' \notin {"tx_status", "tx_status_response"}) =>
            \/ pc' = "tx_outcome" /\ loc'.lastPoll = "outcome" /\ result' = NoResult
            \/ /\ pc' = "done"
               /\ result' \in {Err("NearRpcError", "RpcTransactionError"),
                                Err("NearRpcError", "FinalizationError")}]_vars
    /\ [][(pc = "tx_status" /\ pc' = "tx_status_response" /\ loc.response # "none") =>
            Within]_vars

\* The wait ended on the deadline after a poll that was issued within it.
C25_Witness ==
    /\ InOmni /\ pc = "done"
    /\ result = Err("NearRpcError", "FinalizationError")
    /\ loc.lastPoll = "deadline" /\ loc.response = "handler_error"
    /\ as_secs(loc.at) > FinalizeDepositOmniTimeoutSec

Callers == 1..Len(loc.callers)
\* The calls made before the first transaction was included.
BeforeInclusion(k) == \A j \in 1..k : calls[j].fn # "include"

\* C26: a change() call that broadcast signed one function-call action, the
\* one it was given, with the nonce of its own access-key read plus one and
\* the block hash of that read; a read that returns something else than an
\* access key ends the call with NonceError and nothing broadcast.  Two
\* calls of one signer that both read the key before a transaction of
\* either was included signed the same nonce, and the node accepts at most
\* one of their transactions.
C26_NonceFromOwnQuery ==
    op.name = "change" =>
      /\ \A i \in Callers :
            LET me == loc.callers[i] IN
            /\ me.sent # 0 =>
                  LET t == calls[me.sent].args
                      r == calls[me.query].val
                  IN /\ me.query < me.sent
                     /\ r.kind = "AccessKey"
                     /\ t.nonce = r.nonce + 1
                     /\ t.block_hash = r.block_hash
                     /\ Len(t.actions) = 1
                     /\ t.actions[1].method_name = op.requests[i].method
                     /\ t.actions[1].args = op.requests[i].args
            /\ (me.query # 0 /\ calls[me.query].res = "ok"
                  /\ calls[me.query].val.kind # "AccessKey") =>
                  /\ me.result = Err("NearRpcError", "NonceError")
                  /\ me.sent = 0
            /\ me.result = Err("NearRpcError", "NonceError") =>
                  calls[me.query].val.kind # "AccessKey"
      /\ \A i, j \in Callers :
            (/\ i # j
             /\ loc.callers[i].sent # 0 /\ loc.callers[j].sent # 0
             /\ BeforeInclusion(loc.callers[i].query)
             /\ BeforeInclusion(loc.callers[j].query)) =>
               /\ calls[loc.callers[i].sent].args.nonce = calls[loc.callers[j].sent].args.nonce
               /\ Cardinality({k \in Idx : calls[k].fn = "include"
                                           /\ calls[k].res = "accepted"}) <= 1

\* Both calls read the key before anything was included and broadcast; the
\* node accepted the first transaction and rejected the second.
C26_Witness ==
    /\ op.name = "change"
    /\ \A i \in Callers : loc.callers[i].sent # 0 /\ BeforeInclusion(loc.callers[i].query)
    /\ \E k, l \in Idx : /\ calls[k].fn = "include" /\ calls[k].res = "accepted"
                         /\ calls[l].fn = "include" /\ calls[l].res = "rejected"

\* C27: finalize_deposit_omni polls the status of the transaction with the
\* supplied sender_id when there is one and with the configured NEAR signer
\* account otherwise; when near_signer is unset or not an account id it
\* returns ConfigError without any poll, also when a sender_id was supplied.
C27_SenderIdOrSigner ==
    InOmni =>
      /\ \A i \in Idx : calls[i].fn = "tx" =>
            calls[i].args = <<op.tx_hash,
                              IF op.sender_id = "none" THEN "near_signer" ELSE op.sender_id>>
      /\ cfg["near_signer"] # "ok" =>
            /\ calls = <<>> /\ loc.response = "none"
            /\ pc \in {"tx_status", "done"}
            /\ pc = "done" => result = ConfigError

\* A sender_id was supplied, the signer account is malformed, and the
\* operation ended with ConfigError before it polled.
C27_Witness ==
    /\ InOmni /\ pc = "done"
    /\ op.sender_id = "alice.testnet"
    /\ cfg["near_signer"] = "bad"
    /\ result = ConfigError /\ calls = <<>> /\ loc.response = "none"

IsDisplay == op.name = "OmniAddress::to_string" /\ pc = "done"
IsParse == op.name = "OmniAddress::from_str" /\ pc = "done"
EthWord == <<"e", "t", "h">>
Chains == {EthWord, <<"n", "e", "a", "r">>, <<"s", "o", "l">>}
\* Forty hex digits of either case.
IsHex20(t) ==
    /\ Len(t) = 40
    /\ \A i \in 1..40 : \E k \in 1..16 :
          t[i] \in {HexDigits[k], <<"0", "1", "2", "3", "4", "5", "6", "7", "8", "9",
                                    "A", "B", "C", "D", "E", "F">>[k]}

\* C30: parsing the displayed form of an OmniAddress gives the address back;
\* parsing a text returns an error, and never panics, when the text has no
\* ':', when the word before the first ':' is not eth, near or sol, or when
\* the recipient of an eth address is not the hex digits of 20 bytes; the
\* hex digits of 20 bytes are accepted with and without the "0x" prefix.
C30_OmniAddressRoundTrip ==
    /\ result.kind # "panic"
    /\ IsDisplay => loc.decoded = [ok |-> TRUE, v |-> op.address]
    /\ IsParse =>
          LET t == op.input
              colons == {i \in 1..Len(t) : t[i] = ":"}
          IN IF colons = {} THEN ~loc.decoded.ok
             ELSE LET c == CHOOSE i \in colons : \A j \in colons : i <= j
                      chain == SubSeq(t, 1, c - 1)
                      rest == SubSeq(t, c + 1, Len(t))
                  IN /\ chain \notin Chains => ~loc.decoded.ok
                     /\ chain \in Chains \ {EthWord} => loc.decoded.ok
                     /\ chain = EthWord =>
                           (loc.decoded.ok <=>
                              \/ IsHex20(rest)
                              \/ /\ Len(rest) = 42 /\ rest[1] = "0" /\ rest[2] = "x"
                                 /\ IsHex20(SubSeq(rest, 3, 42)))
                     /\ loc.decoded.ok => OmniAddress_from_str(
                                              OmniAddress_to_string(loc.decoded.v)) = loc.decoded

\* An Eth address went through its text form, "eth:0x" and 40 digits.
C30_Witness ==
    /\ IsDisplay /\ op.address.chain = "Eth"
    /\ Len(loc.bytes) = 46 /\ loc.bytes[6] = "x"
    /\ loc.decoded.ok /\ loc.decoded.v.recipient[1] = 171

InWithLog == op.name = "Nep141Connector.finalize_deposit_omni_with_log"
IsEthSignTransfer(e) ==
    e.event = "SignTransferEvent" /\ e.message_payload.recipient.chain = "Eth"
DepositOmniCalls == {i \in Idx : calls[i].fn = "deposit_omni"}

\* C28 as stated: an event of another kind or a recipient that is not an Eth
\* address ends finalize_deposit_omni_with_log with UnknownError.
C28_UnknownErrorForOtherEvents ==
    (InWithLog /\ pc = "done" /\ ~IsEthSignTransfer(op.transfer_log)) =>
        result.kind = "UnknownError"

\* C28: finalize_deposit_omni_with_log submits deposit_omni only for a
\* SignTransferEvent with an Eth recipient; for another event kind or a Near
\* or Sol recipient it submits nothing and returns the error of building
\* the factory when a setting of the factory is unset or malformed, else
\* UnknownError; the BridgeDeposit submitted carries the payload's nonce,
\* token, amount and the 20 bytes of its recipient, and as fee recipient the
\* text form of the payload's fee recipient, the empty string when none.
C28_DepositOmniOnlyForEthSignTransfer ==
    InWithLog =>
      /\ DepositOmniCalls # {} => IsEthSignTransfer(op.transfer_log)
      /\ (pc = "done" /\ ~IsEthSignTransfer(op.transfer_log)) =>
            /\ calls = <<>>
            /\ result = IF bridge_token_factory # Ok THEN bridge_token_factory
                        ELSE Err("UnknownError",
                                 IF op.transfer_log.event # "SignTransferEvent"
                                   THEN "event" ELSE "recipient")
      /\ \A i \in DepositOmniCalls :
            LET p == op.transfer_log.message_payload
                deposit == calls[i].args[2]
            IN /\ calls[i].args[1] = op.transfer_log.signature
               /\ deposit.nonce = p.nonce
               /\ deposit.token = p.token
               /\ deposit.amount = p.amount
               /\ deposit.recipient = p.recipient.recipient
               /\ ~p.fee_recipient.some => deposit.fee_recipient = <<>>
               /\ p.fee_recipient.some =>
                     OmniAddress_from_str(deposit.fee_recipient)
                        = [ok |-> TRUE, v |-> p.fee_recipient.v]

\* A SignTransferEvent without fee recipient, nonce 7, was submitted.
C28_Witness ==
    /\ InWithLog /\ pc = "done" /\ result = Ok
    /\ op.transfer_log.message_payload.nonce = 7
    /\ ~op.transfer_log.message_payload.fee_recipient.some
    /\ Len(calls) = 1 /\ calls[1].fn = "deposit_omni"
    /\ calls[1].args[2].fee_recipient = <<>>

PendingOps == {"FastBridge.complete_transfer_on_eth", "FastBridge.unlock"}
\* The pending transfer was fetched and decoded, and it has no height.
PendingWithoutHeight ==
    /\ op.name \in PendingOps
    /\ Len(calls) >= 1 /\ calls[1].fn = "view" /\ calls[1].res = "ok"
    /\ calls[1].val.text = "json"
    /\ EthAddressDeserializes(calls[1].val.token_eth)
    /\ EthAddressDeserializes(calls[1].val.recipient)
    /\ ~calls[1].val.valid_till_block_height.some

\* C29 as stated: with a pending transfer that has no valid_till_block_height
\* both operations end with UnknownError.
C29_UnknownErrorWithoutHeight ==
    (PendingWithoutHeight /\ pc = "done") => result.kind = "UnknownError"

\* C29: with a pending transfer that has no valid_till_block_height both
\* operations make no call after the fetch (no transferTokens, no
\* storage-proof request, no unlock); complete_transfer_on_eth returns
\* UnknownError, and so does unlock unless fast_bridge_address is unset or
\* malformed, which it reports first as ConfigError.
C29_NothingSubmittedWithoutHeight ==
    PendingWithoutHeight =>
      /\ Len(calls) = 1
      /\ pc \in {"get_storage_proof", "transfer_tokens", "done"}
      /\ pc = "done" =>
            result = IF op.name = "FastBridge.unlock" /\ fast_bridge_address # Ok
                       THEN ConfigError
                     ELSE Err("UnknownError", "valid_till_block_height is None")

\* unlock ended with UnknownError after fetching a transfer without height.
C29_Witness ==
    /\ PendingWithoutHeight /\ op.name = "FastBridge.unlock" /\ pc = "done"
    /\ result.kind = "UnknownError"
====
